---- MODULE Spec2Model ----
(***************************************************************************)
(* oakdb: the storage layer (SQLiteBackend), the Base facade and the       *)
(* trigger graph that keeps the lexical mirror {base}_fts and the vector   *)
(* mirror {base}_vec in step with the primary table.                       *)
(*                                                                         *)
(* One base, one thread.  The store is what SQLite persists: the rows of   *)
(* the primary table, the rows of the two mirrors, the set of schema       *)
(* objects (tables and triggers) and the oak_conf table.  On top of it sit *)
(* the fields of the SQLiteBackend object (vec_enabled, the state of its   *)
(* connection) and of the Base object (search_enabled, vector_enabled).    *)
(***************************************************************************)
EXTENDS Bags, FiniteSets, Integers, Sequences, TLC

VARIABLES
    tbl,             \* primary table {base}: key -> row, for the stored keys
    fts,             \* rows of {base}_fts, a bag (fts5 has no unique column)
    vec,             \* rows of {base}_vec: key -> embedding
    schema,          \* names of the tables and triggers that exist
    conf,            \* oak_conf: key -> value, for the stored keys
    search_enabled,  \* Base.search_enabled
    vector_enabled,  \* Base.vector_enabled
    vec_enabled,     \* SQLiteBackend.vec_enabled
    ext_loaded,      \* the connection has the sqlite-vec extension loaded
    VECTOR_DEPS,     \* backends.VECTOR_DEPS: the optional imports succeeded
    now,             \* CURRENT_TIMESTAMP, in seconds
    resp,            \* what the last call returned (or that it raised)
    _bases,          \* Oak._bases of the root handle: name -> the Base memoized
    scan,            \* the keys of the primary table in rowid order, where a
                     \* specification follows the order of a table scan
    caller_items,    \* the caller's list as the last adds left it, where a
                     \* specification follows the caller's objects
    fts_rows,        \* the rows of {base}_fts in rowid order, where a
                     \* specification reads the mirror
    connections,     \* the connections of the threads other than the one that
                     \* made the backend: thread -> its connection has the
                     \* sqlite-vec extension loaded
    other,           \* a second base of the same backend, base "b": its
                     \* primary rows (key -> data and embedding), the keys of
                     \* the rows of its lexical mirror (a bag), and the
                     \* search_enabled of its Base
    adding           \* the (key, text) of the SQLiteBackend.add that has
                     \* committed its INSERT and not yet written the
                     \* embedding, <<>> when no thread is there

vars == <<tbl, fts, vec, schema, conf, search_enabled, vector_enabled,
          vec_enabled, ext_loaded, VECTOR_DEPS, now, resp,
          _bases, scan, caller_items, fts_rows, adding, connections, other>>

store == <<tbl, fts, vec, schema, conf>>

\* what the calls of Base below leave alone: they do not go through the
\* root handle, and the scan order and the caller's objects are followed
\* only by the specifications that read them
aside == <<_bases, scan, caller_items, fts_rows, adding, connections, other>>

-----------------------------------------------------------------------------
(* Bounds *)

MaxTime == 1       \* the clock runs over 0..MaxTime
MaxBatch == 2      \* longest sequence passed to adds / deletes
MaxFts == 2        \* most rows the lexical mirror is let grow to

-----------------------------------------------------------------------------
(* Names *)

Name == "a"                      \* Base.name
T(suffix) == Name \o suffix      \* f"{base_name}{suffix}"

MainTable == Name
ConfTable == "oak_conf"
FtsTable == T("_fts")
VecTable == T("_vec")
FtsTriggers == {T("_ai"), T("_au"), T("_ad")}
VecTriggers == {T("_embc"), T("_embu"), T("_embd")}

SearchFlag == T("_search")
VectorFlag == T("_vector")
VectFlag == T("_vect")

Keys == {"k", "1"}               \* the key space of the model

-----------------------------------------------------------------------------
(* JSON documents and json.dumps / json.loads *)

Scalar(t, v) == [t |-> t, v |-> v]
JNull == Scalar("null", "")
Num(v) == [kind |-> "scalar", val |-> Scalar("num", v), fields |-> <<>>]
Map(fields) == [kind |-> "map", val |-> JNull, fields |-> fields]
Field(name, val) == [name |-> name, val |-> val]

Docs ==
    { Num("1"),
      Map(<<Field("x", Scalar("num", "1")), Field("key", Scalar("str", "k"))>>) }

isdict(d) == d.kind = "map"

\* json.dumps of a scalar, as a sequence of tokens
DumpScalar(s) ==
    CASE s.t = "num" -> <<s.v>>
      [] s.t = "str" -> <<"\"", s.v, "\"">>
      [] OTHER -> <<"null">>

RECURSIVE DumpFields(_)
DumpFields(fs) ==
    IF fs = <<>> THEN <<>>
    ELSE <<"\"", Head(fs).name, "\"", ":">> \o DumpScalar(Head(fs).val)
         \o (IF Tail(fs) = <<>> THEN <<>> ELSE <<",">>)
         \o DumpFields(Tail(fs))

\* json.dumps: the JSON text, as its sequence of tokens
dumps(d) ==
    IF isdict(d) THEN <<"{">> \o DumpFields(d.fields) \o <<"}">>
    ELSE DumpScalar(d.val)

\* the scalar that starts at token i, and the index of the token after it
LoadScalar(toks, i) ==
    IF toks[i] = "null" THEN [val |-> JNull, next |-> i + 1]
    ELSE IF toks[i] = "\"" THEN [val |-> Scalar("str", toks[i + 1]), next |-> i + 3]
    ELSE [val |-> Scalar("num", toks[i]), next |-> i + 1]

RECURSIVE LoadFields(_, _)
LoadFields(toks, i) ==
    IF i > Len(toks) \/ toks[i] = "}" THEN <<>>
    ELSE IF toks[i] = "," THEN LoadFields(toks, i + 1)
    ELSE LET v == LoadScalar(toks, i + 4)
         IN  <<Field(toks[i + 1], v.val)>> \o LoadFields(toks, v.next)

\* json.loads
loads(text) ==
    IF Head(text) = "{" THEN Map(LoadFields(text, 2))
    ELSE [kind |-> "scalar", val |-> LoadScalar(text, 1).val, fields |-> <<>>]

HasField(d, name) == \E i \in 1..Len(d.fields) : d.fields[i].name = name

\* dict.pop(name, None): the value removed
PopValue(d, name) ==
    IF isdict(d) /\ HasField(d, name)
    THEN (d.fields[CHOOSE i \in 1..Len(d.fields) : d.fields[i].name = name]).val
    ELSE JNull

\* dict.pop(name, None): the mapping left behind
PopRest(d, name) ==
    IF isdict(d)
    THEN Map(SelectSeq(d.fields, LAMBDA f : f.name # name))
    ELSE d

-----------------------------------------------------------------------------
(* Keys as Python values *)

None == Scalar("null", "")
KeyArgs ==
    { None, Scalar("str", "k"), Scalar("str", ""), Scalar("num", "1"),
      Scalar("bool", "True") }

VALID_KEYS == {"str", "num", "null"}
VALID_KEYS_GET == {"str", "num"}

\* truth value of a Python scalar
truthy(s) ==
    CASE s.t = "null" -> FALSE
      [] s.t = "str" -> s.v # ""
      [] s.t = "num" -> s.v # "0"
      [] OTHER -> s.v = "True"

\* str() of a Python scalar
str(s) == IF s.t = "null" THEN "None" ELSE s.v

-----------------------------------------------------------------------------
(* The SQL statements the backend issues, as functions of the database     *)
(* content db = [tbl, fts, vec].  A statement yields an outcome: the new   *)
(* content and the row count, or the exception sqlite3 raises.             *)

NULL == <<>>
Row(data, embedding, created, updated) ==
    [data |-> data, embedding |-> embedding, created |-> created, updated |-> updated]
FtsRow(key, row) ==
    [key |-> key, data |-> row.data, created |-> row.created, updated |-> row.updated]

DB == [tbl |-> tbl, fts |-> fts, vec |-> vec]

Ok(db, rows) == [exc |-> "", msg |-> "", db |-> db, rows |-> rows]
Fail(db, exc, msg) == [exc |-> exc, msg |-> msg, db |-> db, rows |-> 0]

\* the embedder's vector for a text, serialized
Emb(text) == <<"f32">> \o text

Restrict(f, S) == [x \in S |-> f[x]]
FtsWithout(bag, keys) == Restrict(bag, {r \in DOMAIN bag : r.key \notin keys})
FtsOf(t) == SetToBag({FtsRow(k, t[k]) : k \in DOMAIN t})

FtsTrigger(ev) ==
    CASE ev = "insert" -> T("_ai") [] ev = "update" -> T("_au") [] OTHER -> T("_ad")
VecTrigger(ev) ==
    CASE ev = "insert" -> T("_embc") [] ev = "update" -> T("_embu") [] OTHER -> T("_embd")

\* Compiling INSERT / UPDATE / DELETE on the primary table compiles the
\* triggers of that event; it fails when the table is missing, when a trigger
\* names a missing table, or when {base}_vec is there but its module is not.
PrepareError(ev) ==
    IF MainTable \notin schema THEN "no such table: " \o MainTable
    ELSE IF FtsTrigger(ev) \in schema /\ FtsTable \notin schema
         THEN "no such table: main." \o FtsTable
    ELSE IF VecTrigger(ev) \in schema /\ VecTable \notin schema
         THEN "no such table: main." \o VecTable
    ELSE IF VecTrigger(ev) \in schema /\ ~ext_loaded THEN "no such module: vec0"
    ELSE ""

\* INSERT [OR REPLACE] INTO {base}(key, data, created, updated) VALUES(...).
\* REPLACE removes the conflicting row without firing the delete triggers
\* (recursive_triggers is off); the AFTER INSERT triggers then run.
SqlInsert(db, key, data, created, replace) ==
    IF PrepareError("insert") # "" THEN Fail(db, "OperationalError", PrepareError("insert"))
    ELSE IF key \in DOMAIN db.tbl /\ ~replace
         THEN Fail(db, "IntegrityError", "UNIQUE constraint failed: " \o Name \o ".key")
    ELSE LET row == Row(data, NULL, created, now)
         IN  Ok([tbl |-> (key :> row) @@ db.tbl,
                 fts |-> IF T("_ai") \in schema
                         THEN db.fts (+) SetToBag({FtsRow(key, row)})
                         ELSE db.fts,
                 vec |-> IF T("_embc") \in schema /\ row.embedding # NULL
                         THEN (key :> row.embedding) @@ db.vec
                         ELSE db.vec], 1)

\* UPDATE {base} SET embedding = ? WHERE key = ?
SqlUpdateEmbedding(db, key, embedding) ==
    IF PrepareError("update") # "" THEN Fail(db, "OperationalError", PrepareError("update"))
    ELSE IF key \notin DOMAIN db.tbl THEN Ok(db, 0)
    ELSE LET row == [db.tbl[key] EXCEPT !.embedding = embedding]
         IN  Ok([tbl |-> [db.tbl EXCEPT ![key] = row],
                 fts |-> IF T("_au") \in schema
                         THEN FtsWithout(db.fts, {key}) (+) SetToBag({FtsRow(key, row)})
                         ELSE db.fts,
                 vec |-> IF T("_embu") \in schema
                         THEN (key :> row.embedding) @@ db.vec
                         ELSE db.vec], 1)

\* DELETE FROM {base} WHERE key = ?  /  WHERE key IN (...)
SqlDelete(db, keys) ==
    IF PrepareError("delete") # "" THEN Fail(db, "OperationalError", PrepareError("delete"))
    ELSE LET hit == keys \cap DOMAIN db.tbl
         IN  Ok([tbl |-> Restrict(db.tbl, DOMAIN db.tbl \ hit),
                 fts |-> IF T("_ad") \in schema THEN FtsWithout(db.fts, hit) ELSE db.fts,
                 vec |-> IF T("_embd") \in schema
                         THEN Restrict(db.vec, DOMAIN db.vec \ hit)
                         ELSE db.vec], Cardinality(hit))

-----------------------------------------------------------------------------
(* SQLiteBackend *)

\* SQLiteBackend.genkey draws from random.choices: any key of the key space
GenKeys == Keys

\* SQLiteBackend.add_embedding
add_embedding(db, key, text) == SqlUpdateEmbedding(db, key, Emb(text))

\* SQLiteBackend.add as it would be if, with override, the created of a key
\* not stored yet were the epoch and not CURRENT_TIMESTAMP
backend_add_created_epoch(db, key, data, override) ==
    LET created == IF override
                   THEN (IF key \in DOMAIN db.tbl THEN db.tbl[key].created ELSE 0)
                   ELSE now
        ins == SqlInsert(db, key, data, created, override)
    IN  IF ins.exc # "" THEN ins
        ELSE IF vec_enabled THEN add_embedding(ins.db, key, data)
        ELSE ins

\* SQLiteBackend.add: the insert commits, then the embedding is written
backend_add(db, key, data, override) ==
    LET created == IF override /\ key \in DOMAIN db.tbl
                   THEN db.tbl[key].created      \* COALESCE((SELECT created ...), now)
                   ELSE now
        ins == SqlInsert(db, key, data, created, override)
    IN  IF ins.exc # "" THEN ins
        ELSE IF vec_enabled THEN add_embedding(ins.db, key, data)
        ELSE ins

\* cur.executemany(INSERT ...): stops at the first statement that fails
RECURSIVE InsertMany(_, _, _)
InsertMany(db, items, replace) ==
    IF items = <<>> THEN Ok(db, 0)
    ELSE LET r == SqlInsert(db, Head(items)[1], Head(items)[2], now, replace)
         IN  IF r.exc # "" THEN r
             ELSE LET rest == InsertMany(r.db, Tail(items), replace)
                  IN  IF rest.exc # "" THEN rest ELSE Ok(rest.db, r.rows + rest.rows)

\* SQLiteBackend.adds_embedding: cur.executemany(UPDATE ...)
RECURSIVE adds_embedding(_, _)
adds_embedding(db, texts) ==
    IF texts = <<>> THEN Ok(db, 0)
    ELSE LET r == SqlUpdateEmbedding(db, Head(texts)[1], Emb(Head(texts)[2]))
         IN  IF r.exc # "" THEN r ELSE adds_embedding(r.db, Tail(texts))

AddsResult(success, error, rows, db) ==
    [success |-> success, error |-> error, rows_affected |-> rows, db |-> db]

\* SQLiteBackend.adds as it would be with each statement committed on its
\* own: the rows inserted before the failing statement stay
backend_adds_autocommit(db, items, override) ==
    LET ins == InsertMany(db, items, override)
    IN  IF ins.exc # "" THEN AddsResult(FALSE, ins.msg, 0, ins.db)
        ELSE IF vec_enabled
             THEN LET emb == adds_embedding(ins.db, items)
                  IN  IF emb.exc # "" THEN AddsResult(FALSE, emb.msg, 0, ins.db)
                      ELSE AddsResult(TRUE, "", ins.rows, emb.db)
        ELSE AddsResult(TRUE, "", ins.rows, ins.db)

\* SQLiteBackend.adds: one transaction for the batch, rolled back as a whole
\* when a statement fails
backend_adds(db, items, override) ==
    LET ins == InsertMany(db, items, override)
    IN  IF ins.exc # "" THEN AddsResult(FALSE, ins.msg, 0, db)
        ELSE IF vec_enabled
             THEN LET emb == adds_embedding(ins.db, items)
                  IN  IF emb.exc # "" THEN AddsResult(FALSE, emb.msg, 0, ins.db)
                      ELSE AddsResult(TRUE, "", ins.rows, emb.db)
        ELSE AddsResult(TRUE, "", ins.rows, ins.db)

\* SQLiteBackend.get
backend_get(db, key) == IF key \in DOMAIN db.tbl THEN <<db.tbl[key]>> ELSE <<>>

\* SQLiteBackend.delete
backend_delete(db, key) == SqlDelete(db, {key})

\* SQLiteBackend.deletes
backend_deletes(db, keys) == SqlDelete(db, {keys[i] : i \in 1..Len(keys)})

\* bool() of what dict.get(key, False) gives for oak_conf
ConfBool(c, key) == key \in DOMAIN c /\ c[key] # ""

\* SQLiteBackend has no method vdb: Base.__init__'s call raises AttributeError
HasVdb == FALSE

-----------------------------------------------------------------------------
(* Schema operations of the backend, as functions of the whole store       *)
(* st = [tbl, fts, vec, schema, conf].  DDL outside a transaction commits  *)
(* at once, so a failure leaves the statements before it in effect.        *)

Empty == [x \in {} |-> NULL]

ST == [tbl |-> tbl, fts |-> fts, vec |-> vec, schema |-> schema, conf |-> conf]

Done(st) == [exc |-> "", msg |-> "", st |-> st]
Raise(st, exc, msg) == [exc |-> exc, msg |-> msg, st |-> st]

\* SQLiteBackend.initialize
initialize(st) ==
    [st EXCEPT !.schema = @ \cup {MainTable, ConfTable}]

\* SQLiteBackend.set_config
set_config(st, key, value) ==
    IF ConfTable \notin st.schema
    THEN Raise(st, "OperationalError", "no such table: " \o ConfTable)
    ELSE Done([st EXCEPT !.conf = (key :> value) @@ @])

\* SQLiteBackend.get_configs
get_configs(st) == st.conf

\* SQLiteBackend.create_fts_table
create_fts_table(st) ==
    LET created == [st EXCEPT !.schema = @ \cup {FtsTable}]
    IN  IF MainTable \notin st.schema
        THEN Raise(created, "OperationalError", "no such table: " \o MainTable)
        ELSE Done([created EXCEPT !.fts = @ (+) FtsOf(st.tbl),
                                  !.schema = @ \cup FtsTriggers])

\* SQLiteBackend.init_vector_search, after the extension was loaded
init_vector_search(st) ==
    IF ConfTable \notin st.schema
    THEN Raise(st, "OperationalError", "no such table: " \o ConfTable)
    ELSE IF MainTable \notin st.schema
    THEN Raise(st, "OperationalError", "no such table: main." \o MainTable)
    ELSE Done([st EXCEPT !.conf = (VectFlag :> "1") @@ @,
                         !.schema = @ \cup {VecTable} \cup VecTriggers])

\* SQLiteBackend.drop_tables as it would be if called without its kind
\* argument, which defaults to "all": the primary table and oak_conf go too
drop_tables_default_kind(st, kind) ==
    LET s1 == [st EXCEPT !.schema = @ \ ({MainTable, ConfTable}
                                          \cup FtsTriggers \cup VecTriggers),
                         !.tbl = Empty, !.conf = Empty]
        s2 == [s1 EXCEPT !.schema = @ \ ({FtsTable} \cup FtsTriggers),
                         !.fts = EmptyBag]
    IN  IF VECTOR_DEPS
        THEN IF VecTable \in s2.schema /\ ~ext_loaded
             THEN Raise(s2, "OperationalError", "no such module: vec0")
             ELSE Done([s2 EXCEPT !.schema = @ \ {VecTable, T("_emb")},
                                  !.vec = Empty])
        ELSE Done(s2)

\* SQLiteBackend.drop_tables
drop_tables(st, kind) ==
    LET s1 == IF kind \in {"all", "main"}
              THEN [st EXCEPT !.schema = @ \ ({MainTable, ConfTable}
                                               \cup FtsTriggers \cup VecTriggers),
                              !.tbl = Empty, !.conf = Empty]
              ELSE st
        s2 == IF kind \in {"all", "search"}
              THEN [s1 EXCEPT !.schema = @ \ ({FtsTable} \cup FtsTriggers),
                              !.fts = EmptyBag]
              ELSE s1
    IN  IF kind \in {"all", "vector"} /\ VECTOR_DEPS
        THEN IF VecTable \in s2.schema /\ ~ext_loaded
             THEN Raise(s2, "OperationalError", "no such module: vec0")
             ELSE Done([s2 EXCEPT !.schema = @ \ {VecTable, T("_emb")},
                                  !.vec = Empty])
        ELSE Done(s2)

-----------------------------------------------------------------------------
(* queries.py: the filter DSL compiled to a WHERE clause                   *)
(* A Python value is a Scalar or a list of them.  A filter mapping is the  *)
(* sequence of its entries in insertion order, the key of an entry being   *)
(* kept as the parts that "__" separates (str.split).  An SQL fragment is  *)
(* kept as the template it was formatted from, the field expression put in *)
(* its {} and, for IN, the placeholders joined into its list.              *)

List(vs) == [t |-> "list", v |-> vs]
Entry(parts, value) == [parts |-> parts, value |-> value]

NoFilter == [kind |-> "none", groups |-> <<>>]
Dict(entries) == [kind |-> "dict", groups |-> <<entries>>]
Groups(gs) == [kind |-> "list", groups |-> gs]
NotAFilter == [kind |-> "str", groups |-> <<>>]

OrderFetch ==
    { "key__asc", "key__desc", "data__asc", "data__desc",
      "created__asc", "created__desc", "updated__asc", "updated__desc" }

COLUMN_KEYS == {"_key", "_data", "_created", "_updated", "_embedding"}

\* the SQL template of each operator; "" stands for the None of in and !in
JSON_OPERATORS ==
    ("eq" :> "{} = ?") @@ ("ne" :> "{} != ?")
    @@ ("lt" :> "CAST({} as NUMERIC) < ?") @@ ("gt" :> "CAST({} as NUMERIC) > ?")
    @@ ("lte" :> "CAST({} as NUMERIC) <= ?") @@ ("gte" :> "CAST({} as NUMERIC) >= ?")
    @@ ("starts" :> "{} LIKE ?") @@ ("ends" :> "{} LIKE ?")
    @@ ("range" :> "CAST({} as NUMERIC) BETWEEN ? AND ?")
    @@ ("contains" :> "{} LIKE ?") @@ ("!contains" :> "{} NOT LIKE ?")
    @@ ("in" :> "") @@ ("!in" :> "")

COLUMN_OPERATORS ==
    ("eq" :> "{} = ?") @@ ("ne" :> "{} != ?")
    @@ ("lt" :> "{} < ?") @@ ("gt" :> "{} > ?")
    @@ ("lte" :> "{} <= ?") @@ ("gte" :> "{} >= ?")
    @@ ("starts" :> "{} LIKE ?") @@ ("ends" :> "{} LIKE ?")
    @@ ("range" :> "{} BETWEEN ? AND ?")
    @@ ("contains" :> "{} LIKE ?") @@ ("!contains" :> "{} NOT LIKE ?")
    @@ ("in" :> "") @@ ("!in" :> "")

NULL_SQL == ("eq" :> "{} IS NULL") @@ ("ne" :> "{} IS NOT NULL")

\* what each formatter puts before and after the value
LIKE_FORMATTERS ==
    ("starts" :> <<"", "%">>) @@ ("ends" :> <<"%", "">>)
    @@ ("contains" :> <<"%", "%">>) @@ ("!contains" :> <<"%", "%">>)

\* the number of ? a template holds
Holes(tpl) ==
    CASE tpl \in {"{} IS NULL", "{} IS NOT NULL"} -> 0
      [] tpl \in {"{} BETWEEN ? AND ?", "CAST({} as NUMERIC) BETWEEN ? AND ?"} -> 2
      [] OTHER -> 1

\* the number of ? in a fragment: those of its template, or, for IN, one in
\* each placeholder of the list
Placeholders(sql) ==
    IF sql.tpl \in {"{} IN ({})", "{} NOT IN ({})"} THEN Len(sql.plcs)
    ELSE Holes(sql.tpl)

\* repr() of a Python scalar
repr(s) == IF s.t = "str" THEN "'" \o s.v \o "'" ELSE str(s)

\* ", ".join(repr(v) for v in vs)
RECURSIVE join(_)
join(vs) ==
    IF vs = <<>> THEN ""
    ELSE IF Len(vs) = 1 THEN repr(vs[1])
    ELSE repr(vs[1]) \o ", " \o join(Tail(vs))

\* "{}".format(value)
format(value) == IF value.t = "list" THEN "[" \o join(value.v) \o "]" ELSE str(value)

\* bool(value)
nonempty(value) == IF value.t = "list" THEN value.v # <<>> ELSE truthy(value)

Built(sql, param) == [exc |-> "", msg |-> "", sql |-> sql, param |-> param]
ValueError(msg) == [exc |-> "ValueError", msg |-> msg, sql |-> <<>>, param |-> <<>>]

\* Condition.is_column_query
is_column_query(field) == field \in COLUMN_KEYS

\* Condition.operators
operators(field) == IF is_column_query(field) THEN COLUMN_OPERATORS ELSE JSON_OPERATORS

\* Condition.field_expression, set by __post_init__: the column named by the
\* field without its underscore, or json_extract(column_name, '$.field')
field_expression(field, column_name) ==
    IF is_column_query(field)
    THEN [kind |-> "column",
          name |-> CASE field = "_key" -> "key" [] field = "_data" -> "data"
                     [] field = "_created" -> "created"
                     [] field = "_updated" -> "updated"
                     [] OTHER -> "embedding",
          path |-> <<>>]
    ELSE [kind |-> "json", name |-> column_name,
          path |-> IF field = "data" THEN <<"$">> ELSE <<"$", field>>]

\* Condition.is_valid_null_query
is_valid_null_query(operator, value) == operator \in DOMAIN NULL_SQL /\ value.t = "null"

\* Condition.handle_range
handle_range(value) ==
    IF ~nonempty(value) THEN ValueError("Range lookup values can't be empty")
    ELSE IF value.t # "list" \/ Len(value.v) # 2
    THEN ValueError("Range operator requires a tuple or list with exactly 2 values")
    ELSE Built(<<>>, value.v)

\* Condition.process_param_value as it would be without its test for a null
\* query: the null is bound like any other value
process_param_value_null_bound(operator, value) ==
    IF operator = "range" THEN handle_range(value)
    ELSE IF operator \in DOMAIN LIKE_FORMATTERS
    THEN Built(<<>>, <<Scalar("str", LIKE_FORMATTERS[operator][1] \o format(value)
                                      \o LIKE_FORMATTERS[operator][2])>>)
    ELSE Built(<<>>, <<value>>)

\* Condition.process_param_value
process_param_value(operator, value) ==
    IF is_valid_null_query(operator, value) THEN Built(<<>>, <<>>)
    ELSE IF operator = "range" THEN handle_range(value)
    ELSE IF operator \in DOMAIN LIKE_FORMATTERS
    THEN Built(<<>>, <<Scalar("str", LIKE_FORMATTERS[operator][1] \o format(value)
                                      \o LIKE_FORMATTERS[operator][2])>>)
    ELSE Built(<<>>, <<value>>)

Sql(tpl, fe, plcs) == [tpl |-> tpl, fe |-> fe, plcs |-> plcs]

\* Condition.ins_sql
ins_sql(operator, field, value, column_name) ==
    IF value.t # "list"
    THEN ValueError(operator \o " only supports lists. You might need to use 'contains' and '!contains'")
    ELSE Built(Sql(IF operator = "in" THEN "{} IN ({})" ELSE "{} NOT IN ({})",
                   field_expression(field, column_name),
                   [i \in 1..Len(value.v) |->
                       IF is_column_query(field) THEN "?" ELSE "json(?)"]),
               <<>>)

\* Condition.null_sql
null_sql(operator, field, value, column_name) ==
    IF is_valid_null_query(operator, value)
    THEN Built(Sql(NULL_SQL[operator], field_expression(field, column_name), <<>>), <<>>)
    ELSE ValueError("Not valid null query.")

\* Condition.get_cond_sql
get_cond_sql(operator, field, value, column_name) ==
    IF value.t = "null" THEN null_sql(operator, field, value, column_name)
    ELSE IF operators(field)[operator] = ""
    THEN ins_sql(operator, field, value, column_name)
    ELSE Built(Sql(operators(field)[operator], field_expression(field, column_name), <<>>),
               <<>>)

\* what __post_init__ and get_cond_sql leave: the first error, or the
\* fragment with Condition.param
Compiled(p, c) ==
    IF p.exc # "" THEN p
    ELSE IF c.exc # "" THEN c
    ELSE Built(c.sql, p.param)

\* Condition(operator, field, value, column_name) followed by get_cond_sql(),
\* as build_condition uses them
Condition(operator, field, value, column_name) ==
    IF operator \notin DOMAIN operators(field)
    THEN ValueError(operator \o " isn not a valid operator.")
    ELSE Compiled(process_param_value(operator, value),
                  get_cond_sql(operator, field, value, column_name))

Where(exc, msg, clauses, params) ==
    [exc |-> exc, msg |-> msg, clauses |-> clauses, params |-> params]

\* one turn of the loop of build_condition as it would be without its test of
\* the number of parts: the parts after the second are dropped
entry_condition_first_two(entry, column_name) ==
    Condition(IF Len(entry.parts) > 1 THEN entry.parts[2] ELSE "eq",
              entry.parts[1], entry.value, column_name)

\* one turn of the loop of build_condition: the Condition of an entry
entry_condition(entry, column_name) ==
    IF Len(entry.parts) > 2 THEN ValueError("More than one __ in query")
    ELSE Condition(IF Len(entry.parts) > 1 THEN entry.parts[2] ELSE "eq",
                   entry.parts[1], entry.value, column_name)

\* the fragment and parameters of an entry put before those of the entries
\* after it; the first error ends the loop
Appended(cond, rest) ==
    IF cond.exc # "" THEN Where(cond.exc, cond.msg, <<>>, <<>>)
    ELSE IF rest.exc # "" THEN rest
    ELSE Where("", "", <<cond.sql>> \o rest.clauses, cond.param \o rest.params)

\* build_condition: the fragments that " AND " joins, and their parameters
RECURSIVE build_condition(_, _)
build_condition(conditions, column_name) ==
    IF conditions = <<>> THEN Where("", "", <<>>, <<>>)
    ELSE Appended(entry_condition(Head(conditions), column_name),
                  build_condition(Tail(conditions), column_name))

\* the AND group of a mapping put before the groups of the mappings after it
Extended(and_sql, rest) ==
    IF and_sql.exc # "" THEN and_sql
    ELSE IF rest.exc # "" THEN rest
    ELSE Where("", "", <<and_sql.clauses>> \o rest.clauses,
               and_sql.params \o rest.params)

\* the loop of build_where_clause over a list of mappings: the AND groups
\* that " OR " joins, and their parameters
RECURSIVE or_clauses(_, _)
or_clauses(groups, column_name) ==
    IF groups = <<>> THEN Where("", "", <<>>, <<>>)
    ELSE Extended(build_condition(Head(groups), column_name),
                  or_clauses(Tail(groups), column_name))

WhereClause(c, parens, groups) ==
    [exc |-> c.exc, msg |-> c.msg, parens |-> parens, groups |-> groups,
     params |-> c.params]

\* one AND group as the only group of a clause
Single(c) == WhereClause(c, FALSE, <<c.clauses>>)
Parenthesized(c) == WhereClause(c, TRUE, c.clauses)

\* build_where_clause: the clause as the sequence of its AND groups, in
\* parentheses when it was built from a list
build_where_clause(conditions, column_name) ==
    IF conditions.kind = "dict"
    THEN Single(build_condition(conditions.groups[1], column_name))
    ELSE IF conditions.kind = "list"
    THEN Parenthesized(or_clauses(conditions.groups, column_name))
    ELSE Parenthesized(Where("AttributeError",
                             "'str' object has no attribute 'items'", <<>>, <<>>))

\* bool(conditions): None, {} and [] are falsy
given(conditions) ==
    \/ conditions.kind = "dict" /\ conditions.groups[1] # <<>>
    \/ conditions.kind = "list" /\ conditions.groups # <<>>
    \/ conditions.kind = "str"

\* order.split("__")
split_order(order) ==
    << CASE order \in {"key__asc", "key__desc"} -> "key"
         [] order \in {"data__asc", "data__desc"} -> "data"
         [] order \in {"created__asc", "created__desc"} -> "created"
         [] OTHER -> "updated",
       IF order \in {"key__asc", "data__asc", "created__asc", "updated__asc"}
       THEN "asc" ELSE "desc" >>

Query(exc, msg, select, where, order, params) ==
    [exc |-> exc, msg |-> msg, select |-> select, where |-> where,
     order |-> order, params |-> params]

\* build_fetch after its WHERE clause w was built; where: the AND groups of
\* the clause, <<>> without one
Select(w, limit, offset, order, count) ==
    IF w.exc # "" THEN Query(w.exc, w.msg, "", <<>>, <<>>, <<>>)
    ELSE IF count THEN Query("", "", "COUNT(*)", w.groups, <<>>, w.params)
    ELSE IF order \notin OrderFetch
    THEN Query("AssertionError", "Invalid order type: " \o order, "", <<>>, <<>>, <<>>)
    ELSE Query("", "", "key, data, created, updated", w.groups, split_order(order),
               w.params \o <<Scalar("int", limit), Scalar("int", offset)>>)

\* build_fetch
build_fetch(conditions, limit, offset, order, count) ==
    Select(IF given(conditions) THEN build_where_clause(conditions, "data")
           ELSE [exc |-> "", msg |-> "", parens |-> FALSE, groups |-> <<>>,
                 params |-> <<>>],
           limit, offset, order, count)

OrderSearch == OrderFetch \cup {"rank__asc", "rank__desc"}

\* order.split("__") of an OrderSearch
split_search_order(order) ==
    IF order \in {"rank__asc", "rank__desc"}
    THEN <<"rank", IF order = "rank__asc" THEN "asc" ELSE "desc">>
    ELSE split_order(order)

\* the statement of build_search; match: the column MATCH is applied to,
\* the table's name standing for every column
MatchQuery(exc, msg, select, match, where, order, params) ==
    [exc |-> exc, msg |-> msg, select |-> select, match |-> match,
     where |-> where, order |-> order, params |-> params]

\* build_search after its WHERE clause w was built
SelectSearch(w, query, limit, offset, order, count) ==
    IF w.exc # "" THEN MatchQuery(w.exc, w.msg, "", "", <<>>, <<>>, <<>>)
    ELSE IF count
    THEN MatchQuery("", "", "COUNT(*)", "data", w.groups, <<>>, <<query>> \o w.params)
    ELSE IF order \notin OrderSearch
    THEN MatchQuery("AssertionError", "Invalid order type: " \o order, "", "",
                    <<>>, <<>>, <<>>)
    ELSE MatchQuery("", "", "key, data, created, updated, rank", FtsTable, w.groups,
                    split_search_order(order),
                    <<query>> \o w.params
                        \o <<Scalar("int", limit), Scalar("int", offset)>>)

\* build_search, for a query that is a string
build_search(query, conditions, limit, offset, order, count) ==
    IF query.v \in {"", " "}
    THEN MatchQuery("ValueError", "Search query cannot be empty", "", "",
                    <<>>, <<>>, <<>>)
    ELSE SelectSearch(IF given(conditions) THEN build_where_clause(conditions, "data")
                      ELSE [exc |-> "", msg |-> "", parens |-> FALSE, groups |-> <<>>,
                            params |-> <<>>],
                      query, limit, offset, order, count)

OrderVector == OrderFetch \cup {"distance__asc", "distance__desc"}

\* the statement of build_vsearch
VectorQuery(exc, msg, where, order, params) ==
    [exc |-> exc, msg |-> msg, select |-> "tb.key, tb.data, tb.created, tb.updated",
     where |-> where, order |-> order, params |-> params]

\* build_vsearch after its WHERE clause w was built
VectorSelect(w, query, limit, order) ==
    IF w.exc # "" THEN VectorQuery(w.exc, w.msg, <<>>, <<>>, <<>>)
    ELSE VectorQuery("", "", w.groups,
                     IF order \in {"distance__asc", "distance__desc"}
                     THEN <<"distance", IF order = "distance__asc" THEN "asc" ELSE "desc">>
                     ELSE split_order(order),
                     <<query>> \o w.params \o <<Scalar("int", limit)>>)

\* build_vsearch (imported by backends.py under the name build_similar); its
\* count argument is not read
build_vsearch(query, conditions, limit, order, count, distance_f) ==
    IF order \notin OrderVector
    THEN VectorQuery("AssertionError", "Invalid order type: " \o order, <<>>, <<>>, <<>>)
    ELSE VectorSelect(IF given(conditions) THEN build_where_clause(conditions, "tb.data")
                      ELSE [exc |-> "", msg |-> "", parens |-> FALSE, groups |-> <<>>,
                            params |-> <<>>],
                      query, limit, order)

-----------------------------------------------------------------------------
(* SQLite: values, comparison and the evaluation of a SELECT               *)
(* A text is kept as a sequence of tokens: one token for a plain string,   *)
(* the tokens of json.dumps for the data column.                           *)

SqlNull == [t |-> "null", v |-> <<>>]
Integer(n) == [t |-> "integer", v |-> n]
Text(toks) == [t |-> "text", v |-> toks]

Digits == <<"0", "1", "2", "3", "4", "5", "6", "7", "8", "9">>
IsDigit(s) == \E i \in 1..Len(Digits) : Digits[i] = s
IntOf(s) == (CHOOSE i \in 1..Len(Digits) : Digits[i] = s) - 1

\* CURRENT_TIMESTAMP as SQLite stores it: the text 'YYYY-MM-DD HH:MM:SS'
Timestamp(n) == "1970-01-01 00:00:0" \o Digits[n + 1]

\* the tokens of the model in BINARY collation order
Collate ==
    << "", "\"", ",", "0", "1", "1970-01-01 00:00:00", "1970-01-01 00:00:01",
       "1970-01-01 00:00:02", "2", "3", "4", "5", "6", "7", "8", "9", ":",
       "a", "ab", "b", "k", "key", "null", "s", "x", "y", "{", "}" >>

Rank(tok) == CHOOSE i \in 1..Len(Collate) : Collate[i] = tok

\* memcmp of two texts: -1, 0 or 1
RECURSIVE TextCmp(_, _)
TextCmp(a, b) ==
    IF a = <<>> THEN (IF b = <<>> THEN 0 ELSE -1)
    ELSE IF b = <<>> THEN 1
    ELSE IF Head(a) = Head(b) THEN TextCmp(Tail(a), Tail(b))
    ELSE IF Rank(Head(a)) < Rank(Head(b)) THEN -1 ELSE 1

\* the order of two values that are not NULL: integers before texts
Compare(a, b) ==
    IF a.t = "integer" /\ b.t = "integer"
    THEN (IF a.v < b.v THEN -1 ELSE IF a.v = b.v THEN 0 ELSE 1)
    ELSE IF a.t = "integer" THEN -1
    ELSE IF b.t = "integer" THEN 1
    ELSE TextCmp(a.v, b.v)

\* the order ORDER BY sorts in: NULL first
CompareNullsFirst(a, b) ==
    IF a.t = "null" THEN (IF b.t = "null" THEN 0 ELSE -1)
    ELSE IF b.t = "null" THEN 1
    ELSE Compare(a, b)

\* sqlite3 binding a Python value to a ?
Bind(p) ==
    CASE p.t = "null" -> SqlNull
      [] p.t = "num" -> Integer(IntOf(p.v))
      [] p.t = "int" -> Integer(p.v)
      [] p.t = "bool" -> Integer(IF p.v = "True" THEN 1 ELSE 0)
      [] p.t = "str" -> Text(<<p.v>>)

\* the SQL value of a JSON scalar
FromJson(s) ==
    CASE s.t = "num" -> Integer(IntOf(s.v))
      [] s.t = "str" -> Text(<<s.v>>)
      [] OTHER -> SqlNull

\* json_extract(data, path)
json_extract(data, path) ==
    LET d == loads(data)
    IN  IF Len(path) = 1 THEN (IF isdict(d) THEN Text(data) ELSE FromJson(d.val))
        ELSE IF isdict(d) /\ HasField(d, path[2]) THEN FromJson(PopValue(d, path[2]))
        ELSE SqlNull

\* the value of a column of the primary table
Column(name, key, row) ==
    CASE name = "key" -> Text(<<key>>)
      [] name = "data" -> Text(row.data)
      [] name = "created" -> Text(<<Timestamp(row.created)>>)
      [] name = "updated" -> Text(<<Timestamp(row.updated)>>)
      [] OTHER -> SqlNull

\* the value of a field expression on a row
FieldValue(fe, key, row) ==
    IF fe.kind = "column" THEN Column(fe.name, key, row)
    ELSE json_extract(Column(fe.name, key, row).v, fe.path)

\* CAST(v as NUMERIC): a text gives the number it starts with, 0 without one
CastNumeric(v) ==
    CASE v.t = "text" ->
            IF Len(v.v) = 1 /\ IsDigit(v.v[1]) THEN Integer(IntOf(v.v[1])) ELSE Integer(0)
      [] OTHER -> v

\* the affinity the left side of a comparison has
Affinity(sql) ==
    IF sql.tpl \in {"CAST({} as NUMERIC) < ?", "CAST({} as NUMERIC) > ?",
                    "CAST({} as NUMERIC) <= ?", "CAST({} as NUMERIC) >= ?",
                    "CAST({} as NUMERIC) BETWEEN ? AND ?"} THEN "NUMERIC"
    ELSE IF sql.fe.kind = "json" THEN "NONE"
    ELSE IF sql.fe.name \in {"key", "data"} THEN "TEXT"
    ELSE IF sql.fe.name \in {"created", "updated"} THEN "NUMERIC"
    ELSE "NONE"

\* the affinity of the left side applied to a bound value, which has none
Coerce(aff, v) ==
    IF aff = "TEXT" /\ v.t = "integer" /\ v.v \in 0..9 THEN Text(<<Digits[v.v + 1]>>)
    ELSE IF aff = "NUMERIC" /\ v.t = "text" /\ Len(v.v) = 1 /\ IsDigit(v.v[1])
    THEN Integer(IntOf(v.v[1]))
    ELSE v

\* three-valued logic: "T", "F", and "N" for NULL
Truth(b) == IF b THEN "T" ELSE "F"
Not3(x) == CASE x = "T" -> "F" [] x = "F" -> "T" [] OTHER -> "N"
And3(S) == IF "F" \in S THEN "F" ELSE IF "N" \in S THEN "N" ELSE "T"
Or3(S) == IF "T" \in S THEN "T" ELSE IF "N" \in S THEN "N" ELSE "F"

\* a comparison operator on two values
Rel(op, a, b) ==
    IF a.t = "null" \/ b.t = "null" THEN "N"
    ELSE Truth(CASE op = "=" -> Compare(a, b) = 0
                 [] op = "!=" -> Compare(a, b) # 0
                 [] op = "<" -> Compare(a, b) < 0
                 [] op = ">" -> Compare(a, b) > 0
                 [] op = "<=" -> Compare(a, b) <= 0
                 [] op = ">=" -> Compare(a, b) >= 0)

\* the strings LIKE takes texts and patterns apart into
Affixes == {"", "a", "b", "ab", "k", "1", "2"}

\* a LIKE pattern, for a text and a pattern of one token each and % the only
\* wildcard
Like(a, p) ==
    IF a.t = "null" \/ p.t = "null" THEN "N"
    ELSE LET one(x) == CASE Len(Coerce("TEXT", x).v) = 1 -> Coerce("TEXT", x).v[1]
             s == one(a)
             pat == one(p)
         IN  Truth(\E c \in Affixes :
                      \/ pat = c /\ s = c
                      \/ pat = c \o "%" /\ \E e \in Affixes : s = c \o e
                      \/ pat = "%" \o c /\ \E b \in Affixes : s = b \o c
                      \/ pat = "%" \o c \o "%"
                            /\ \E b \in Affixes, e \in Affixes : s = b \o c \o e)

\* the operator a comparison template applies
Operator(tpl) ==
    CASE tpl \in {"{} = ?"} -> "="
      [] tpl \in {"{} != ?"} -> "!="
      [] tpl \in {"{} < ?", "CAST({} as NUMERIC) < ?"} -> "<"
      [] tpl \in {"{} > ?", "CAST({} as NUMERIC) > ?"} -> ">"
      [] tpl \in {"{} <= ?", "CAST({} as NUMERIC) <= ?"} -> "<="
      [] tpl \in {"{} >= ?", "CAST({} as NUMERIC) >= ?"} -> ">="

\* a fragment on a row, its ? bound to the values bound.  An IN list never
\* gets here: the parameter built for it is a list, which sqlite3 refuses
EvalClause(sql, bound, key, row) ==
    LET raw == FieldValue(sql.fe, key, row)
        lhs == IF Affinity(sql) = "NUMERIC" /\ sql.fe.kind = "json"
               THEN CastNumeric(raw) ELSE raw
        arg(i) == Coerce(Affinity(sql), bound[i])
    IN  CASE sql.tpl = "{} IS NULL" -> Truth(raw.t = "null")
          [] sql.tpl = "{} IS NOT NULL" -> Truth(raw.t # "null")
          [] sql.tpl = "{} LIKE ?" -> Like(raw, bound[1])
          [] sql.tpl = "{} NOT LIKE ?" -> Not3(Like(raw, bound[1]))
          [] sql.tpl \in {"{} BETWEEN ? AND ?", "CAST({} as NUMERIC) BETWEEN ? AND ?"} ->
                And3({Rel(">=", lhs, arg(1)), Rel("<=", lhs, arg(2))})
          [] OTHER -> Rel(Operator(sql.tpl), lhs, arg(1))

RECURSIVE Flat(_)
Flat(groups) == IF groups = <<>> THEN <<>> ELSE Head(groups) \o Flat(Tail(groups))

\* the number of ? in the first n fragments
RECURSIVE HolesIn(_, _)
HolesIn(clauses, n) ==
    IF n = 0 THEN 0 ELSE HolesIn(clauses, n - 1) + Placeholders(clauses[n])

\* WHERE (g1 OR g2 ...), each group an AND of fragments, on a row; the ? are
\* numbered left to right
WhereValue(groups, bound, key, row) ==
    LET flat == Flat(groups)
        first(g) == Len(Flat(SubSeq(groups, 1, g - 1)))
        clause(i) == EvalClause(flat[i],
                                SubSeq(bound, HolesIn(flat, i - 1) + 1, HolesIn(flat, i)),
                                key, row)
    IN  IF groups = <<>> THEN "T"
        ELSE Or3({ And3({ clause(first(g) + j) : j \in 1..Len(groups[g]) })
                   : g \in 1..Len(groups) })

\* ORDER BY field direction: the row of key a sorts before that of key b
Before(a, b, t, order) ==
    LET val(k) == Column(order[1], k, t[k])
    IN  IF order[2] = "asc" THEN CompareNullsFirst(val(a), val(b)) < 0
        ELSE CompareNullsFirst(val(a), val(b)) > 0

\* a sorted sequence with x put behind the last key that x does not sort before
InsertSorted(acc, x, t, order) ==
    LET pos == Cardinality({i \in 1..Len(acc) : ~Before(x, acc[i], t, order)})
    IN  SubSeq(acc, 1, pos) \o <<x>> \o SubSeq(acc, pos + 1, Len(acc))

\* ORDER BY over the keys of the rows selected: the sorter keeps rows with
\* equal sort keys in the order the scan delivered them
RECURSIVE OrderBy(_, _, _)
OrderBy(keys, t, order) ==
    IF keys = <<>> THEN <<>>
    ELSE InsertSorted(OrderBy(SubSeq(keys, 1, Len(keys) - 1), t, order),
                      keys[Len(keys)], t, order)

\* LIMIT n without its OFFSET: every page starts at the first row
LimitOffset_first_page(s, n, m) ==
    SubSeq(s, 1, IF n < 0 \/ n > Len(s) THEN Len(s) ELSE n)

\* the rows from the one after the first m on, n of them at most, all of
\* them for n below zero
Slice(s, n, m) ==
    IF m >= Len(s) THEN <<>>
    ELSE SubSeq(s, m + 1, IF n < 0 \/ m + n > Len(s) THEN Len(s) ELSE m + n)

\* LIMIT n OFFSET m; an offset below zero is taken as zero
LimitOffset(s, n, m) == Slice(s, n, IF m < 0 THEN 0 ELSE m)

Result(exc, msg, rows) == [exc |-> exc, msg |-> msg, rows |-> rows]

\* the rows a statement yields once compiled and bound
Rows(query, bound, hit, t) ==
    IF query.select = "COUNT(*)" THEN Result("", "", <<Len(hit)>>)
    ELSE Result("", "", LimitOffset(OrderBy(hit, t, query.order),
                                    bound[Len(bound) - 1].v, bound[Len(bound)].v))

\* the keys, in rowid order, of the rows the WHERE clause is true of
Hit(where, bound, t, rowids) ==
    SelectSeq(rowids, LAMBDA k : WhereValue(where, bound, k, t[k]) = "T")

Bound(params) == [i \in 1..Len(params) |-> Bind(params[i])]

\* the ? of a statement with the WHERE fragments flat
HolesOf(flat, select) == HolesIn(flat, Len(flat)) + (IF select = "COUNT(*)" THEN 0 ELSE 2)

\* cursor.execute(query, params) and fetchall() on the primary table t, whose
\* keys in rowid order are rowids: the count, or the keys of the rows
execute(query, t, rowids, tables) ==
    IF \E g \in 1..Len(query.where) : query.where[g] = <<>>
    THEN Result("OperationalError", "syntax error", <<>>)
    ELSE IF MainTable \notin tables
    THEN Result("OperationalError", "no such table: " \o MainTable, <<>>)
    ELSE IF Len(query.params) # HolesOf(Flat(query.where), query.select)
    THEN Result("ProgrammingError", "Incorrect number of bindings supplied.", <<>>)
    ELSE IF \E i \in 1..Len(query.params) : query.params[i].t = "list"
    THEN Result("ProgrammingError",
                "Error binding parameter: type 'list' is not supported", <<>>)
    ELSE Rows(query, Bound(query.params),
              Hit(query.where, Bound(query.params), t, rowids), t)

\* the statement built, run unless building it raised
Run(query, t, rowids, tables) ==
    IF query.exc # "" THEN Result(query.exc, query.msg, <<>>)
    ELSE execute(query, t, rowids, tables)

\* SQLiteBackend.fetch_query
fetch_query(t, rowids, tables, filters, count, limit, offset, order) ==
    Run(build_fetch(filters, limit, offset, order, count), t, rowids, tables)

-----------------------------------------------------------------------------
(* SQLite FTS5: MATCH and rank on the rows of the mirror                   *)
(* The tokenizer splits a column at every character that is no letter and  *)
(* no digit; a query of one word matches a column that holds the word.     *)

Punctuation == {"{", "}", "\"", ":", ","}

\* the words of the text of a timestamp
TimestampWords(n) == {"1970", "01", "00", "0" \o Digits[n + 1]}

\* the words of a column of a row of the mirror
Words(column, row) ==
    CASE column = "key" -> {row.key}
      [] column = "data" -> {row.data[i] : i \in 1..Len(row.data)} \ Punctuation
      [] column = "created" -> TimestampWords(row.created)
      [] OTHER -> TimestampWords(row.updated)

\* {column} MATCH ?, {base}_fts MATCH ? for a query of one word
Match(column, word, row) ==
    IF column = "data" THEN word \in Words("data", row)
    ELSE \E c \in {"key", "data", "created", "updated"} : word \in Words(c, row)

\* the rank column: bm25, below zero, the further from it the better the
\* match; it grows away from zero with the number of times the row holds the
\* word and comes nearer to it with the number of words of the row. On
\* rows of fewer than a hundred words this integer orders them as bm25 does.
Bm25(word, row) ==
    0 - (100 * (Cardinality({i \in 1..Len(row.data) : row.data[i] = word})
                + (IF row.key = word THEN 1 ELSE 0))
         - Cardinality({i \in 1..Len(row.data) : row.data[i] \notin Punctuation}))

\* ORDER BY field direction on the mirror: row a sorts before row b
MirrorBefore(a, b, word, order) ==
    LET val(r) == IF order[1] = "rank" THEN Integer(Bm25(word, r))
                  ELSE Column(order[1], r.key, r)
    IN  IF order[2] = "asc" THEN CompareNullsFirst(val(a), val(b)) < 0
        ELSE CompareNullsFirst(val(a), val(b)) > 0

MirrorInsertSorted(acc, x, word, order) ==
    LET pos == Cardinality({i \in 1..Len(acc) : ~MirrorBefore(x, acc[i], word, order)})
    IN  SubSeq(acc, 1, pos) \o <<x>> \o SubSeq(acc, pos + 1, Len(acc))

\* ORDER BY over the rows selected, rows with equal sort keys staying in
\* the order of the scan
RECURSIVE MirrorOrderBy(_, _, _)
MirrorOrderBy(rows, word, order) ==
    IF rows = <<>> THEN <<>>
    ELSE MirrorInsertSorted(MirrorOrderBy(SubSeq(rows, 1, Len(rows) - 1), word, order),
                            rows[Len(rows)], word, order)

\* the rows of the mirror, in rowid order, that match and that the WHERE
\* clause is true of
MirrorHit(query, bound, rows) ==
    SelectSeq(rows, LAMBDA r :
        /\ Match(query.match, bound[1].v[1], r)
        /\ WhereValue(query.where, SubSeq(bound, 2, Len(bound)), r.key, r) = "T")

\* what a statement of build_search yields once compiled and bound: the
\* count, or the rows with their rank
MirrorRows(query, bound, hit) ==
    IF query.select = "COUNT(*)" THEN Result("", "", <<Len(hit)>>)
    ELSE Result("", "",
                LimitOffset(MirrorOrderBy(hit, bound[1].v[1], query.order),
                            bound[Len(bound) - 1].v, bound[Len(bound)].v))

\* cursor.execute(sql, params) and fetchall() on the mirror
search_execute(query, rows, tables) ==
    IF \E g \in 1..Len(query.where) : query.where[g] = <<>>
    THEN Result("OperationalError", "syntax error", <<>>)
    ELSE IF FtsTable \notin tables
    THEN Result("OperationalError", "no such table: " \o FtsTable, <<>>)
    ELSE IF Len(query.params) # 1 + HolesOf(Flat(query.where), query.select)
    THEN Result("ProgrammingError", "Incorrect number of bindings supplied.", <<>>)
    ELSE IF \E i \in 1..Len(query.params) : query.params[i].t = "list"
    THEN Result("ProgrammingError",
                "Error binding parameter: type 'list' is not supported", <<>>)
    ELSE MirrorRows(query, Bound(query.params),
                    MirrorHit(query, Bound(query.params), rows))

\* the statement built, run unless building it raised
SearchRun(query, rows, tables) ==
    IF query.exc # "" THEN Result(query.exc, query.msg, <<>>)
    ELSE search_execute(query, rows, tables)

\* SQLiteBackend.search_query
search_query(rows, tables, query, filters, count, limit, offset, order) ==
    SearchRun(build_search(query, filters, limit, offset, order, count), rows, tables)

-----------------------------------------------------------------------------
(* Base: the responses *)

NoDoc == [kind |-> "none", val |-> JNull, fields |-> <<>>]

\* op: the method called; exc: the exception it raised, "" when it returned;
\* key, error, success, ret, n: the fields of the response object returned
\* (ret: a plain return value; n: DeletesResponse.deletes).
\* The call itself is recorded with its outcome: arg, the key argument of an
\* add as str() shows it ("None" for the keys None and ""); k, the effective key of an add; data, the body add serialized;
\* override; and pre, what the call found: "stored" / "fresh" for the effective key of an add, "clash" for an
\* adds without override whose keys are stored already or repeat, "mirror"
\* for a disable_* that found the mirror table.
R0 == [op |-> "", exc |-> "", key |-> "", error |-> "",
       success |-> FALSE, ret |-> "", n |-> 0,
       arg |-> "", k |-> "", data |-> NoDoc, override |-> FALSE, pre |-> ""]

SetDB(db) == tbl' = db.tbl /\ fts' = db.fts /\ vec' = db.vec
SetStore(st) ==
    /\ tbl' = st.tbl /\ fts' = st.fts /\ vec' = st.vec
    /\ schema' = st.schema /\ conf' = st.conf

base == <<search_enabled, vector_enabled>>
backend == <<vec_enabled, ext_loaded, VECTOR_DEPS>>

-----------------------------------------------------------------------------
(* Base: the operations *)

\* Base.__init__, over the store as it is; newBackend: the Base comes with a
\* SQLiteBackend of its own (a new handle on the file) rather than sharing
\* the one in use
Construct(newBackend) ==
    \E st \in {initialize(ST)} :
        /\ SetStore(st)
        /\ vec_enabled' = IF newBackend THEN FALSE ELSE vec_enabled
        /\ ext_loaded' = IF newBackend THEN FALSE ELSE ext_loaded
        /\ search_enabled' = ConfBool(get_configs(st), SearchFlag)
        /\ vector_enabled' = IF HasVdb THEN ConfBool(get_configs(st), VectorFlag) ELSE FALSE
        /\ resp' = [R0 EXCEPT !.op = "construct"]
        /\ UNCHANGED <<VECTOR_DEPS, now>>

\* create the mirror, then persist the flag
EnableSearchStore(st) ==
    LET c == create_fts_table(st)
    IN  IF c.exc = "" THEN set_config(c.st, SearchFlag, "1") ELSE c

\* Base.enable_search as it would be without its test of search_enabled:
\* the mirror is created and filled whatever the Base holds
EnableSearch_unguarded ==
    \E s \in {EnableSearchStore(ST)} :
        /\ SetStore(s.st)
        /\ BagCardinality(s.st.fts) <= MaxFts
        /\ search_enabled' = (s.exc = "")
        /\ resp' = IF s.exc = ""
                   THEN [R0 EXCEPT !.op = "enable_search", !.ret = "enabled"]
                   ELSE [R0 EXCEPT !.op = "enable_search", !.exc = "ValueError"]
        /\ UNCHANGED <<vector_enabled, backend, now>>

\* Base.enable_search
EnableSearch ==
    IF search_enabled
    THEN /\ resp' = [R0 EXCEPT !.op = "enable_search", !.ret = "already enabled"]
         /\ UNCHANGED <<store, base, backend, now>>
    ELSE \E s \in {EnableSearchStore(ST)} :
             /\ SetStore(s.st)
             /\ BagCardinality(s.st.fts) <= MaxFts
             /\ search_enabled' = (s.exc = "")
             /\ resp' = IF s.exc = ""
                        THEN [R0 EXCEPT !.op = "enable_search", !.ret = "enabled"]
                        ELSE [R0 EXCEPT !.op = "enable_search", !.exc = "ValueError"]
             /\ UNCHANGED <<vector_enabled, backend, now>>

EnableVectorStore(st) ==
    LET c == init_vector_search(st)
    IN  IF c.exc = "" THEN set_config(c.st, VectorFlag, "1") ELSE c

\* Base.enable_vector
EnableVector ==
    IF vector_enabled
    THEN /\ resp' = [R0 EXCEPT !.op = "enable_vector", !.ret = "already enabled"]
         /\ UNCHANGED <<store, base, backend, now>>
    ELSE IF ~VECTOR_DEPS
    THEN /\ resp' = [R0 EXCEPT !.op = "enable_vector", !.exc = "ValueError"]
         /\ UNCHANGED <<store, base, backend, now>>
    ELSE \E s \in {EnableVectorStore(ST)} :
             /\ SetStore(s.st)
             /\ ext_loaded' = TRUE
             /\ vec_enabled' = TRUE
             /\ vector_enabled' = (s.exc = "")
             /\ resp' = IF s.exc = ""
                        THEN [R0 EXCEPT !.op = "enable_vector", !.ret = "enabled"]
                        ELSE [R0 EXCEPT !.op = "enable_vector", !.exc = "ValueError"]
             /\ UNCHANGED <<search_enabled, VECTOR_DEPS, now>>

\* drop the mirror, then persist the flag
DisableStore(st, kind, flag) ==
    LET d == drop_tables(st, kind)
    IN  IF d.exc = "" THEN set_config(d.st, flag, "0") ELSE d

\* Base.disable_search
DisableSearch ==
    \E s \in {DisableStore(ST, "search", SearchFlag)} :
        /\ SetStore(s.st)
        /\ search_enabled' = IF s.exc = "" THEN FALSE ELSE search_enabled
        /\ resp' = [R0 EXCEPT !.op = "disable_search",
                              !.ret = IF s.exc = "" THEN "True" ELSE "",
                              !.exc = IF s.exc = "" THEN "" ELSE "ValueError",
                              !.pre = IF FtsTable \in schema THEN "mirror" ELSE ""]
        /\ UNCHANGED <<vector_enabled, backend, now>>

\* Base.disable_vector
DisableVector ==
    \E s \in {DisableStore(ST, "vector", VectorFlag)} :
        /\ SetStore(s.st)
        /\ vector_enabled' = IF s.exc = "" THEN FALSE ELSE vector_enabled
        /\ resp' = [R0 EXCEPT !.op = "disable_vector",
                              !.ret = IF s.exc = "" THEN "True" ELSE "",
                              !.exc = IF s.exc = "" THEN "" ELSE "ValueError",
                              !.pre = IF VecTable \in schema THEN "mirror" ELSE ""]
        /\ UNCHANGED <<search_enabled, backend, now>>

\* the message "Invalid 'key' type" (the source quotes key with backticks)
InvalidKeyType == "Invalid 'key' type"

AlreadyExists(key) == "Item with key '" \o key \o "' already exists"

\* key or _key or genkey(), as a string
EffectiveKey(data, key, gk) ==
    str(IF truthy(key) THEN key
        ELSE IF truthy(PopValue(data, "key")) THEN PopValue(data, "key")
        ELSE Scalar("str", gk))

\* the call add(data, key, override) as resp records it; arg: the explicit
\* key as text, "None" when none is given; k: its effective key
AddCall(db, data, key, k, override) ==
    [R0 EXCEPT !.op = "add",
               !.arg = IF key.t = "null" \/ key = Scalar("str", "")
                       THEN "None" ELSE str(key),
               !.k = k,
               !.data = PopRest(data, "key"),
               !.override = override,
               !.pre = IF k \in DOMAIN db.tbl THEN "stored" ELSE "fresh"]

\* Base.add; gk: the key genkey() returns if it is called
Add(data, key, override, gk) ==
    IF key.t \notin VALID_KEYS
    THEN /\ resp' = [R0 EXCEPT !.op = "add", !.error = InvalidKeyType]
         /\ UNCHANGED <<store, base, backend, now>>
    ELSE \E k \in {EffectiveKey(data, key, gk)} :
         \E out \in {backend_add(DB, k, dumps(PopRest(data, "key")), override)} :
             /\ SetDB(out.db)
             /\ BagCardinality(out.db.fts) <= MaxFts
             /\ resp' = CASE out.exc = "" ->
                                [AddCall(DB, data, key, k, override) EXCEPT !.key = k]
                          [] out.exc = "IntegrityError" ->
                                [AddCall(DB, data, key, k, override) EXCEPT
                                    !.error = AlreadyExists(k)]
                          [] OTHER ->
                                [AddCall(DB, data, key, k, override) EXCEPT !.exc = out.exc]
             /\ UNCHANGED <<schema, conf, base, backend, now>>

\* the key Base.adds gives an item; gk: what genkey() returned for it
ItemKey(item, gk) ==
    IF isdict(item) /\ truthy(PopValue(item, "key"))
    THEN str(PopValue(item, "key"))
    ELSE gk

\* the (key, json) pairs Base.adds hands to the backend: the json is taken
\* from a copy of the item made before the item's "key" is popped
AddsItems(items, gks) ==
    [i \in 1..Len(items) |-> <<ItemKey(items[i], gks[i]), dumps(items[i])>>]

\* some key of the batch is stored already, or two items carry the same key
Clash(db, _items) ==
    \/ \E i \in 1..Len(_items) : _items[i][1] \in DOMAIN db.tbl
    \/ \E i, j \in 1..Len(_items) : i # j /\ _items[i][1] = _items[j][1]

\* Base.adds; gks[i]: the key genkey() returns for the i-th item
Adds(items, override, gks) ==
    IF items = <<>>
    THEN /\ resp' = [R0 EXCEPT !.op = "adds", !.error = "No items"]
         /\ UNCHANGED <<store, base, backend, now>>
    ELSE \E res \in {backend_adds(DB, AddsItems(items, gks), override)} :
             /\ SetDB(res.db)
             /\ BagCardinality(res.db.fts) <= MaxFts
             /\ resp' = [R0 EXCEPT !.op = "adds", !.success = res.success,
                                   !.error = res.error, !.override = override,
                                   !.pre = IF ~override /\ Clash(DB, AddsItems(items, gks))
                                           THEN "clash" ELSE ""]
             /\ UNCHANGED <<schema, conf, base, backend, now>>

\* GetResponse, with the fields of the row read
GetResp(key, error, row) ==
    [key |-> key, error |-> error,
     data |-> IF row = <<>> THEN NoDoc ELSE loads(row[1].data),
     created |-> IF row = <<>> THEN -1 ELSE row[1].created,
     updated |-> IF row = <<>> THEN -1 ELSE row[1].updated]

\* Base.get, a read: the response for a key, on the content db
Get(db, key) ==
    IF key.t \notin VALID_KEYS_GET THEN GetResp("", InvalidKeyType, <<>>)
    ELSE IF key = Scalar("str", "") THEN GetResp("", "Key is empty", <<>>)
    ELSE LET row == backend_get(db, str(key))
         IN  IF row = <<>> THEN GetResp(str(key), "Key not found", <<>>)
             ELSE GetResp(str(key), "", row)

\* Base.get as a call: the SELECT raises when the primary table is gone
GetKey(key) ==
    /\ resp' = IF key.t \in VALID_KEYS_GET /\ key # Scalar("str", "")
                   /\ MainTable \notin schema
                THEN [R0 EXCEPT !.op = "get", !.exc = "OperationalError"]
                ELSE [R0 EXCEPT !.op = "get", !.key = Get(DB, key).key,
                                !.error = Get(DB, key).error,
                                !.data = Get(DB, key).data]
    /\ UNCHANGED <<store, base, backend, now, aside>>

\* ItemsResponse
ItemsResponse(page, pages, total, limit, items, error) ==
    [page |-> page, pages |-> pages, total |-> total, limit |-> limit,
     items |-> items, error |-> error]

\* the limit fetch takes when the caller gives none
DefaultLimit == 1000

\* an item of ItemsResponse.items
Item(key, row) ==
    [key |-> key, data |-> loads(row.data), created |-> row.created,
     updated |-> row.updated]

\* Base.fetch as it would be if a page after the last one were an error
Page_out_of_range(total_items, total_pages, results, t, limit, page) ==
    IF page > total_pages \/ results.exc # ""
    THEN [page |-> 0, pages |-> 0, total |-> 0, limit |-> 0, items |-> <<>>,
          error |-> "page out of range"]
    ELSE [page |-> page, pages |-> total_pages, total |-> total_items,
          limit |-> limit,
          items |-> [i \in 1..Len(results.rows) |->
                        [key |-> results.rows[i]] @@ t[results.rows[i]]],
          error |-> ""]

\* Base.fetch once the count is known
Page(total_items, total_pages, results, t, limit, page) ==
    IF page > total_pages
    THEN ItemsResponse(page, total_pages, total_items, 0, <<>>, "")
    ELSE IF results.exc # ""
    THEN ItemsResponse(0, 0, 0, 0, <<>>, results.msg)
    ELSE ItemsResponse(page, total_pages, total_items, limit,
                       [i \in 1..Len(results.rows) |->
                           Item(results.rows[i], t[results.rows[i]])], "")

\* Base.fetch after the count query; results: what the row query yields if
\* it is made
Counted(count_result, results, t, limit, page) ==
    IF count_result.exc # ""
    THEN ItemsResponse(0, 0, 0, 0, <<>>, count_result.msg)
    ELSE Page(count_result.rows[1], (count_result.rows[1] + limit - 1) \div limit,
              results, t, limit, page)

\* Base.fetch with limit and page clamped
Clamped(t, rowids, tables, filters, limit, order, page) ==
    IF filters.kind \notin {"list", "dict", "none"}
    THEN ItemsResponse(0, 0, 0, 0, <<>>, "Not supported query type: <class 'str'>")
    ELSE Counted(fetch_query(t, rowids, tables, filters, TRUE, limit,
                             (page - 1) * limit, ""),
                 fetch_query(t, rowids, tables, filters, FALSE, limit,
                             (page - 1) * limit, order),
                 t, limit, page)

\* Base.fetch, a read: the response on the primary table t, whose keys in
\* rowid order are rowids, tables being the tables that exist
fetch(t, rowids, tables, filters, limit, order, page) ==
    Clamped(t, rowids, tables, filters, IF limit < 1 THEN 1 ELSE limit, order,
            IF page < 1 THEN 1 ELSE page)

\* a call of Base.fetch: resp holds the arguments of the call and, in out,
\* the response returned
Fetch(filters, limit, order, page) ==
    /\ resp' = [op |-> "fetch", exc |-> "", filters |-> filters, limit |-> limit,
                order |-> order, page |-> page,
                out |-> fetch(tbl, scan, schema, filters, limit, order, page)]
    /\ UNCHANGED <<store, base, backend, now, aside>>

\* the limit search takes when the caller gives none
DefaultSearchLimit == 10

\* an item of the ItemsResponse of search
SearchItem(row, word) ==
    [key |-> row.key, data |-> loads(row.data), created |-> row.created,
     updated |-> row.updated, rank |-> Bm25(word, row)]

\* Base.search once the count is known
SearchPage(total_items, total_pages, results, word, limit, page) ==
    IF page > total_pages
    THEN ItemsResponse(page, total_pages, total_items, limit, <<>>, "")
    ELSE IF results.exc # ""
    THEN ItemsResponse(0, 0, 0, 0, <<>>, results.msg)
    ELSE ItemsResponse(page, total_pages, total_items, limit,
                       [i \in 1..Len(results.rows) |->
                           SearchItem(results.rows[i], word)], "")

\* Base.search after the count query; results: what the row query yields if
\* it is made
SearchCounted(count_result, results, word, limit, page) ==
    IF count_result.exc # ""
    THEN ItemsResponse(0, 0, 0, 0, <<>>, count_result.msg)
    ELSE SearchPage(count_result.rows[1],
                    (count_result.rows[1] + limit - 1) \div limit,
                    results, word, limit, page)

\* Base.search with limit and page clamped
SearchClamped(rows, tables, query, filters, limit, order, page) ==
    SearchCounted(search_query(rows, tables, query, filters, TRUE, limit,
                               (page - 1) * limit, order),
                  search_query(rows, tables, query, filters, FALSE, limit,
                               (page - 1) * limit, order),
                  query.v, limit, page)

\* Base.search as it would be if it took the page as the caller gave it
search_page_unclamped(rows, tables, query, filters, limit, order, page) ==
    IF ~truthy(query) THEN ItemsResponse(0, 0, 0, 0, <<>>, "Provide a search query")
    ELSE IF query.t # "str"
    THEN ItemsResponse(0, 0, 0, 0, <<>>, "Expected 'str', got <class 'int'> instead")
    ELSE SearchClamped(rows, tables, query, filters,
                       IF limit < 1 THEN 1 ELSE limit, order, page)

\* Base.search on a base with search enabled, a read: the response on the
\* mirror whose rows in rowid order are rows (the type of the query is
\* quoted with backticks in the source)
search(rows, tables, query, filters, limit, order, page) ==
    IF ~truthy(query) THEN ItemsResponse(0, 0, 0, 0, <<>>, "Provide a search query")
    ELSE IF query.t # "str"
    THEN ItemsResponse(0, 0, 0, 0, <<>>, "Expected 'str', got <class 'int'> instead")
    ELSE SearchClamped(rows, tables, query, filters,
                       IF limit < 1 THEN 1 ELSE limit, order,
                       IF page < 1 THEN 1 ELSE page)

\* Base.search
Search(query, filters, limit, order, page) ==
    /\ resp' = IF ~search_enabled
               THEN [op |-> "search", exc |-> "Exception", query |-> query,
                     filters |-> filters, limit |-> limit, order |-> order,
                     page |-> page, out |-> ItemsResponse(0, 0, 0, 0, <<>>, "")]
               ELSE [op |-> "search", exc |-> "", query |-> query,
                     filters |-> filters, limit |-> limit, order |-> order,
                     page |-> page,
                     out |-> search(fts_rows, schema, query, filters, limit, order, page)]
    /\ UNCHANGED <<store, base, backend, now, aside>>

\* Base.delete
Delete(key) ==
    IF key.t \notin VALID_KEYS_GET
    THEN /\ resp' = [R0 EXCEPT !.op = "delete", !.error = InvalidKeyType]
         /\ UNCHANGED <<store, base, backend, now>>
    ELSE IF key = Scalar("str", "")
    THEN /\ resp' = [R0 EXCEPT !.op = "delete", !.error = "Key is empty"]
         /\ UNCHANGED <<store, base, backend, now>>
    ELSE \E out \in {backend_delete(DB, str(key))} :
             /\ SetDB(out.db)
             /\ resp' = IF out.exc = ""
                        THEN [R0 EXCEPT !.op = "delete", !.key = str(key),
                                        !.ret = IF out.rows > 0 THEN "True" ELSE "False"]
                        ELSE [R0 EXCEPT !.op = "delete", !.exc = out.exc]
             /\ UNCHANGED <<schema, conf, base, backend, now>>

\* Base.deletes
Deletes(keys) ==
    IF keys = <<>>
    THEN /\ resp' = [R0 EXCEPT !.op = "deletes", !.error = "No keys provided"]
         /\ UNCHANGED <<store, base, backend, now>>
    ELSE \E out \in {backend_deletes(DB, keys)} :
             /\ SetDB(out.db)
             /\ resp' = IF out.exc = ""
                        THEN [R0 EXCEPT !.op = "deletes", !.n = out.rows]
                        ELSE [R0 EXCEPT !.op = "deletes", !.error = out.msg]
             /\ UNCHANGED <<schema, conf, base, backend, now>>

\* Base.drop; resp.arg records the kind passed to drop_tables and resp.pre
\* whether the configuration table was there
Drop(name, main_only) ==
    IF name # Name
    THEN /\ resp' = [R0 EXCEPT !.op = "drop", !.exc = "AssertionError"]
         /\ UNCHANGED <<store, base, backend, now, aside>>
    ELSE \E s \in {drop_tables(ST, IF main_only THEN "main" ELSE "all")} :
             /\ SetStore(s.st)
             /\ search_enabled' = IF s.exc = "" THEN FALSE ELSE search_enabled
             /\ resp' = IF s.exc = ""
                        THEN [R0 EXCEPT !.op = "drop", !.ret = "True",
                                        !.arg = IF main_only THEN "main" ELSE "all",
                                        !.pre = IF ConfTable \in schema THEN "conf" ELSE ""]
                        ELSE [R0 EXCEPT !.op = "drop", !.exc = "ValueError",
                                        !.arg = IF main_only THEN "main" ELSE "all"]
             /\ UNCHANGED <<vector_enabled, backend, now, aside>>

\* a Base object of the root handle: Base(name, self.backend); id tells the
\* objects apart, in the order the handle constructed them
BaseObject(name, id) == [name |-> name, backend |-> "self.backend", id |-> id]

\* Oak.__init__ given the backend in use: a root handle with nothing memoized
Oak ==
    /\ _bases' = Empty
    /\ resp' = [R0 EXCEPT !.op = "Oak"]
    /\ UNCHANGED <<store, base, backend, now, scan, caller_items, fts_rows, adding, connections, other>>

\* Oak.Base(name) as it would be without the memo: every call constructs a
\* Base and stores it
OakBase_unmemoized(name) ==
    \E st \in {IF name = Name THEN initialize(ST)
                ELSE [ST EXCEPT !.schema = @ \cup {name, ConfTable}]} :
        /\ SetStore(st)
        /\ search_enabled' = IF name = Name THEN ConfBool(get_configs(st), SearchFlag)
                              ELSE search_enabled
        /\ vector_enabled' = IF name # Name THEN vector_enabled
                              ELSE IF HasVdb THEN ConfBool(get_configs(st), VectorFlag)
                              ELSE FALSE
        /\ _bases' = (name :> BaseObject(name, Cardinality(DOMAIN _bases) + 1)) @@ _bases
        /\ resp' = [R0 EXCEPT !.op = "Base", !.ret = "new", !.arg = name,
                              !.n = Cardinality(DOMAIN _bases) + 1,
                              !.pre = IF MainTable \in schema THEN "" ELSE "dropped"]
        /\ UNCHANGED <<backend, now, scan, caller_items, fts_rows, adding, connections, other>>

\* Oak.Base(name) on the root handle; resp.ret records whether the Base
\* returned was memoized, resp.n which object it is, and resp.pre whether the
\* primary table of the base in use was missing at the call. A Base of the
\* name in use is the one used from then on; the Base of another name has a
\* table of its own, kept here by its name in the schema.
OakBase(name) ==
    IF name \in DOMAIN _bases
    THEN /\ resp' = [R0 EXCEPT !.op = "Base", !.ret = "memoized", !.arg = name,
                               !.n = _bases[name].id,
                               !.pre = IF MainTable \in schema THEN "" ELSE "dropped"]
         /\ UNCHANGED <<store, base, backend, now, aside>>
    ELSE \E st \in {IF name = Name THEN initialize(ST)
                     ELSE [ST EXCEPT !.schema = @ \cup {name, ConfTable}]} :
             /\ SetStore(st)
             /\ search_enabled' = IF name = Name
                                   THEN ConfBool(get_configs(st), SearchFlag)
                                   ELSE search_enabled
             /\ vector_enabled' = IF name # Name THEN vector_enabled
                                   ELSE IF HasVdb
                                   THEN ConfBool(get_configs(st), VectorFlag)
                                   ELSE FALSE
             /\ _bases' = (name :> BaseObject(name, Cardinality(DOMAIN _bases) + 1))
                           @@ _bases
             /\ resp' = [R0 EXCEPT !.op = "Base", !.ret = "new", !.arg = name,
                                   !.n = Cardinality(DOMAIN _bases) + 1,
                                   !.pre = IF MainTable \in schema THEN "" ELSE "dropped"]
             /\ UNCHANGED <<backend, now, scan, caller_items, fts_rows, adding, connections, other>>

\* a second of CURRENT_TIMESTAMP passes
Tick ==
    /\ now < MaxTime
    /\ now' = now + 1
    /\ UNCHANGED <<store, base, backend, resp>>

-----------------------------------------------------------------------------
(* The store of one base, driven through its Base *)

Batches(S) == UNION {[1..n -> S] : n \in 0..MaxBatch}

\* the keys genkey() may return to a call that uses the result
GenFor(needed) == IF needed THEN GenKeys ELSE {CHOOSE g \in GenKeys : TRUE}
NeedsKey(item) == ~(isdict(item) /\ truthy(PopValue(item, "key")))

\* Oak(path).Base(name) on a new file
Init ==
    /\ tbl = Empty /\ fts = EmptyBag /\ vec = Empty
    /\ schema = {MainTable, ConfTable}
    /\ conf = Empty
    /\ search_enabled = FALSE /\ vector_enabled = FALSE
    /\ vec_enabled = FALSE /\ ext_loaded = FALSE
    /\ VECTOR_DEPS \in BOOLEAN
    /\ now = 0
    /\ resp = [R0 EXCEPT !.op = "construct"]
    /\ _bases = Name :> BaseObject(Name, 1)
    /\ scan = <<>>
    /\ caller_items = <<>>
    /\ connections = <<>>
    /\ other = [tbl |-> <<>>, fts |-> EmptyBag, search_enabled |-> FALSE]
    /\ fts_rows = <<>>
    /\ adding = <<>>

\* one call of a method of Base, or opening the base again
Calls ==
    \/ \E nb \in BOOLEAN : Construct(nb)
    \/ EnableSearch
    \/ EnableVector
    \/ DisableSearch
    \/ DisableVector
    \/ \E d \in Docs, k \in KeyArgs, o \in BOOLEAN :
          \E gk \in GenFor(~truthy(k) /\ NeedsKey(d)) : Add(d, k, o, gk)
    \/ \E items \in Batches(Docs), o \in BOOLEAN :
          \E gks \in {g \in [1..Len(items) -> GenKeys] :
                        \A i \in 1..Len(items) : g[i] \in GenFor(NeedsKey(items[i]))} :
              Adds(items, o, gks)
    \/ \E k \in KeyArgs : Delete(k)
    \/ \E keys \in Batches(Keys) : Deletes(keys)

Next == (Calls \/ Tick) /\ UNCHANGED aside

Spec == Init /\ [][Next]_vars

\* an installation without the vector extras (sqlite_vec, llama_cpp, numpy)
InitPlain == Init /\ ~VECTOR_DEPS

SpecPlain == InitPlain /\ [][Next]_vars

\* an installation with the vector extras, its calls made within one second
\* of the clock
InitVector == Init /\ VECTOR_DEPS

SpecVector == InitVector /\ [][Calls /\ UNCHANGED aside]_vars

\* the names drop is called with: the base's own and another
DropNames == {Name, "b"}

\* the calls that create and drop a base through its root handle, with the
\* vector extras installed
DropCalls ==
    \/ \E n \in DropNames, m \in BOOLEAN : Drop(n, m)
    \/ Oak
    \/ OakBase(Name)
    \/ EnableSearch /\ UNCHANGED aside
    \/ EnableVector /\ UNCHANGED aside
    \/ \E d \in Docs, k \in {None, Scalar("str", "k")}, o \in BOOLEAN :
          \E gk \in GenFor(~truthy(k) /\ NeedsKey(d)) :
              Add(d, k, o, gk) /\ UNCHANGED aside

SpecDrop == InitVector /\ [][DropCalls]_vars

\* most rows of a table that is queried, the largest limit asked for beside
\* the default, and the last page asked for
MaxRows == 3
MaxLimit == 2
MaxPage == 3

FetchKeys == {"1", "b", "k"}

\* rows as add leaves them, two of them created in the same second
StoredRows ==
    { Row(dumps(Map(<<Field("x", Scalar("num", "1"))>>)), NULL, 0, 0),
      Row(dumps(Map(<<Field("x", Scalar("num", "2")),
                      Field("s", Scalar("str", "ab"))>>)), NULL, 0, MaxTime),
      Row(dumps(Num("1")), NULL, MaxTime, MaxTime) }

\* the sequences without repetition of at most n elements of S
DistinctSeqs(S, n) ==
    {q \in UNION {[1..m -> S] : m \in 0..n} :
        \A i, j \in 1..Len(q) : i # j => q[i] # q[j]}

Range(q) == {q[i] : i \in 1..Len(q)}

\* a base without mirrors that a sequence of adds has filled
InitFetch ==
    /\ scan \in DistinctSeqs(FetchKeys, MaxRows)
    /\ tbl \in [Range(scan) -> StoredRows]
    /\ fts = EmptyBag /\ vec = Empty
    /\ schema = {MainTable, ConfTable}
    /\ conf = Empty
    /\ search_enabled = FALSE /\ vector_enabled = FALSE
    /\ vec_enabled = FALSE /\ ext_loaded = FALSE
    /\ VECTOR_DEPS = FALSE
    /\ now = MaxTime
    /\ resp = [R0 EXCEPT !.op = "construct"]
    /\ _bases = Name :> BaseObject(Name, 1)
    /\ caller_items = <<>>
    /\ connections = <<>>
    /\ other = [tbl |-> <<>>, fts |-> EmptyBag, search_enabled |-> FALSE]
    /\ fts_rows = <<>>
    /\ adding = <<>>

\* one AND group of a filter: the entries of a mapping
FilterGroups ==
    { <<Entry(<<"x">>, Scalar("num", "1"))>>,
      <<Entry(<<"x", "ne">>, Scalar("num", "1"))>>,
      <<Entry(<<"x">>, None)>>,
      <<Entry(<<"x", "range">>, List(<<Scalar("num", "1"), Scalar("num", "2")>>))>>,
      <<Entry(<<"s", "contains">>, Scalar("str", "b"))>>,
      <<Entry(<<"_key">>, Scalar("str", "k"))>>,
      <<Entry(<<"data">>, Scalar("num", "1"))>>,
      <<Entry(<<"x", "in">>, List(<<Scalar("num", "1"), Scalar("num", "2")>>))>> }

\* the groups that a list of two mappings is made of
OrGroups ==
    { <<Entry(<<"x">>, Scalar("num", "1"))>>,
      <<Entry(<<"x", "gte">>, Scalar("num", "2")), Entry(<<"s", "starts">>, Scalar("str", "a"))>>,
      <<Entry(<<"_key">>, Scalar("str", "k"))>>,
      <<Entry(<<"x", "in">>, List(<<Scalar("num", "2")>>))>> }

\* the filters fetch is called with
FetchFilters ==
    {NoFilter, NotAFilter, Dict(<<>>), Dict(<<Entry(<<"x", "zz">>, Scalar("num", "1"))>>)}
    \cup {Dict(g) : g \in FilterGroups}
    \cup {Groups(<<g1, g2>>) : g1 \in OrGroups, g2 \in OrGroups}

FetchOrders == {"created__desc", "key__asc", "rank__asc"}

\* the first call made on the base opened: a fetch
FetchCalls ==
    /\ resp.op = "construct"
    /\ \E f \in FetchFilters, l \in (0..MaxLimit) \cup {DefaultLimit},
          o \in FetchOrders, p \in 0..MaxPage :
           Fetch(f, l, o, p)

SpecFetch == InitFetch /\ [][FetchCalls]_vars

-----------------------------------------------------------------------------
(* Properties *)

\* a step taken by a call of Base.<op>: every call records itself in resp, and
\* only the clock leaves resp alone
CallOf(op) == now' = now /\ resp'.op = op

FlagIs(flag, value) == flag \in DOMAIN conf /\ conf[flag] = value

\* C1: while lexical search is enabled for the base, after any sequence of
\* add (with or without override), adds, delete and deletes, the mirror
\* {base}_fts holds exactly one row per primary row, with the same
\* (key, data, created, updated), and no row for a key the primary lacks.
C1_FtsMirrorsPrimary ==
    (search_enabled /\ FlagIs(SearchFlag, "1")) => fts = FtsOf(tbl)

\* C2: adds(items, override=false) in which an item's key is stored already,
\* or two items of the batch carry the same key, stores none of the items:
\* the primary table is as it was before the call, and the response has
\* success=false and a non-empty error.
C2_AddsClashStoresNothing ==
    [][(CallOf("adds") /\ resp'.pre = "clash")
         => (tbl' = tbl /\ ~resp'.success /\ resp'.error # "")]_vars

\* C2, reached: a non-empty base has just rejected a batch for a key clash
C2_Witness ==
    /\ resp.op = "adds" /\ resp.pre = "clash"
    /\ ~resp.success
    /\ resp.error = "UNIQUE constraint failed: a.key"
    /\ tbl # Empty

\* C3: created is immutable after insert: while a key stays stored, its
\* created value never changes, whatever add(override=true) and
\* adds(override=true) calls replace the record.
C3_CreatedImmutable ==
    [][\A k \in DOMAIN tbl \cap DOMAIN tbl' : tbl'[k].created = tbl[k].created]_vars

\* C4: after add(d2, key=k, override=true) on a stored key k, get(k) returns
\* data d2, created unchanged, and updated strictly greater than its value
\* before the call.
C4_OverrideRefreshesUpdated ==
    [][(CallOf("add") /\ resp'.override /\ resp'.pre = "stored" /\ resp'.arg = resp'.k)
         => /\ Get(DB', Scalar("str", resp'.k)).data = resp'.data
            /\ Get(DB', Scalar("str", resp'.k)).created = tbl[resp'.k].created
            /\ Get(DB', Scalar("str", resp'.k)).updated > tbl[resp'.k].updated]_vars

\* C5: round trip: add(d), for a document d whose key (its own "key" entry, or
\* the generated one) is not stored yet, succeeds with a non-empty key, and
\* get of that key returns data equal to d (a mapping: d without its
\* top-level "key" entry).
C5_AddGetRoundTrip ==
    [][(CallOf("add") /\ resp'.arg = "None" /\ ~resp'.override /\ resp'.pre = "fresh")
         => /\ resp'.exc = "" /\ resp'.error = "" /\ resp'.key # ""
            /\ Get(DB', Scalar("str", resp'.key)).data = resp'.data]_vars

\* C6: add(d, key=k) with override=false, k stored already, returns the error
\* "Item with key '<k>' already exists" and leaves that record and every
\* other record unchanged.
C6_DuplicateAddRejected ==
    [][(CallOf("add") /\ ~resp'.override /\ resp'.pre = "stored" /\ resp'.arg = resp'.k)
         => /\ resp'.exc = ""
            /\ resp'.error = AlreadyExists(resp'.k)
            /\ tbl' = tbl]_vars

\* C7: for search and for vector alike, enabling the feature and then
\* disabling it leaves every row of the primary table identical (key, data,
\* embedding, created, updated), and the disable leaves the Base's
\* search_enabled / vector_enabled false.
C7_EnableDisableFrame ==
    [][/\ (CallOf("enable_search") \/ CallOf("disable_search")
             \/ CallOf("enable_vector") \/ CallOf("disable_vector")) => tbl' = tbl
       /\ (CallOf("disable_search") /\ resp'.exc = "") => ~search_enabled'
       /\ (CallOf("disable_vector") /\ resp'.exc = "") => ~vector_enabled']_vars

\* C7, reached: disable_vector has just returned on a base that holds rows
\* and had the vector mirror enable_vector made
C7_Witness ==
    /\ resp.op = "disable_vector" /\ resp.exc = "" /\ resp.pre = "mirror"
    /\ tbl # Empty
    /\ FlagIs(VectorFlag, "0")
    /\ ~vector_enabled

\* C8: after disable_vector returns, the vector mirror {base}_vec and the
\* triggers {base}_embc, {base}_embu, {base}_embd no longer exist, and the
\* persisted {base}_vector flag is cleared.
C8_DisableVectorRemovesAll ==
    (resp.op = "disable_vector" /\ resp.exc = "")
        => /\ VecTable \notin schema
           /\ VecTriggers \cap schema = {}
           /\ ~FlagIs(VectorFlag, "1")

\* C9: a Base constructed over an existing store has search_enabled true
\* exactly when the persisted flag {base}_search is "1"; with the flag "0",
\* or none stored, it has search_enabled false.
C9_SearchFlagLoaded ==
    resp.op = "construct" => (search_enabled <=> FlagIs(SearchFlag, "1"))

\* C10: with the vector extension available, a Base constructed over a store
\* whose {base}_vector flag is "1" has vector_enabled true, and one whose
\* flag is "0" or absent has vector_enabled false.
C10_VectorFlagLoaded ==
    (resp.op = "construct" /\ VECTOR_DEPS)
        => (vector_enabled <=> FlagIs(VectorFlag, "1"))

\* C11: drop(name, main_only=true) drops only the primary table: oak_conf,
\* with the flags it holds, and the mirror tables with their rows are left
\* as they were.
C11_DropMainOnlyKeepsConf ==
    [][(CallOf("drop") /\ resp'.arg = "main" /\ resp'.exc = "")
        => /\ MainTable \notin schema'
           /\ (ConfTable \in schema <=> ConfTable \in schema')
           /\ conf' = conf
           /\ schema' \cap {FtsTable, VecTable} = schema \cap {FtsTable, VecTable}
           /\ fts' = fts /\ vec' = vec]_vars

\* C12: after drop has removed the tables, Base(name) on the root handle that
\* gave the base, then add, succeeds: the primary table and oak_conf are
\* there again and the record is stored.
C12_LazyCreationAfterDrop ==
    [][(/\ resp.op = "Base" /\ resp.ret = "memoized" /\ resp.pre = "dropped"
        /\ CallOf("add") /\ resp'.error # InvalidKeyType)
        => /\ resp'.exc = "" /\ resp'.error = ""
           /\ {MainTable, ConfTable} \subseteq schema'
           /\ resp'.k \in DOMAIN tbl']_vars

\* C13: enable_search (enable_vector) called on a Base whose feature is
\* enabled already returns "already enabled" without raising and leaves the
\* mirror tables' rows, the triggers and tables, and the persisted flags as
\* they were.
C13_EnableIdempotent ==
    [][(\/ CallOf("enable_search") /\ search_enabled
        \/ CallOf("enable_vector") /\ vector_enabled)
        => /\ resp'.ret = "already enabled" /\ resp'.exc = ""
           /\ fts' = fts /\ vec' = vec
           /\ schema' = schema /\ conf' = conf
           /\ search_enabled' = search_enabled
           /\ vector_enabled' = vector_enabled]_vars

\* C13 happens: enable_vector answered "already enabled" on a Base with
\* search enabled too and a row in the full-text mirror
C13_Witness ==
    /\ resp.op = "enable_vector" /\ resp.ret = "already enabled"
    /\ search_enabled /\ vector_enabled
    /\ fts # EmptyBag /\ tbl # Empty

\* the longest list a condition is compiled with
MaxList == 3

\* the operators, fields and values conditions are compiled with
ConditionOperators == (DOMAIN JSON_OPERATORS) \cup {"zz"}
ConditionFields == {"x", "data", "_key"}
ConditionValues ==
    {None, Scalar("num", "1"), Scalar("str", "a")}
    \cup {List([i \in 1..n |-> Scalar("num", "1")]) : n \in 0..MaxList}

\* Condition(operator, field, value).get_cond_sql(), as build_condition and
\* the tests of queries.py make it
Compile(operator, field, value) ==
    /\ resp' = [op |-> "Condition", exc |-> "", operator |-> operator,
                field |-> field, value |-> value,
                out |-> Condition(operator, field, value, "data")]
    /\ UNCHANGED <<store, base, backend, now, aside>>

\* one condition compiled
ConditionCalls ==
    /\ resp.op = "construct"
    /\ \E operator \in ConditionOperators, field \in ConditionFields,
          value \in ConditionValues :
           Compile(operator, field, value)

SpecCondition == InitPlain /\ [][ConditionCalls]_vars

\* the explicit keys add, get and delete are called with: strings and
\* numbers
ExplicitKeys ==
    {Scalar("str", "k"), Scalar("str", "0"), Scalar("num", "1"), Scalar("num", "0")}

\* add, delete and the clock on a base whose records are added under
\* explicit keys
KeyCalls ==
    \/ \E d \in Docs, k \in ExplicitKeys, o \in BOOLEAN :
          \E gk \in GenFor(~truthy(k) /\ NeedsKey(d)) :
              Add(d, k, o, gk) /\ UNCHANGED aside
    \/ \E k \in ExplicitKeys : Delete(k) /\ UNCHANGED aside
    \/ Tick /\ UNCHANGED aside

SpecKeys == InitPlain /\ [][KeyCalls]_vars

\* the caller's list after the loop of Base.adds: item.pop("key", None) is
\* made on the item itself, the copy being data
Popped(items) == [i \in 1..Len(items) |-> PopRest(items[i], "key")]

\* the caller makes a list of items
NewItems(items) ==
    /\ caller_items' = items
    /\ resp' = [R0 EXCEPT !.op = "items", !.n = Len(items)]
    /\ UNCHANGED <<store, base, backend, now, _bases, scan, fts_rows, adding,
                   connections, other>>

\* Base.adds called with the caller's list
AddsCaller(override, gks) ==
    /\ Adds(caller_items, override, gks)
    /\ caller_items' = Popped(caller_items)
    /\ UNCHANGED <<_bases, scan, fts_rows, adding, connections, other>>

\* lists made by the caller and handed to adds
ItemsCalls ==
    \/ \E items \in Batches(Docs) : NewItems(items)
    \/ \E o \in BOOLEAN :
          \E gks \in {g \in [1..Len(caller_items) -> GenKeys] :
                        \A i \in 1..Len(caller_items) :
                            g[i] \in GenFor(NeedsKey(caller_items[i]))} :
              AddsCaller(o, gks)

SpecItems == InitPlain /\ [][ItemsCalls]_vars

\* lists handed to adds, and add called without a key
GenCalls ==
    \/ ItemsCalls
    \/ \E d \in Docs, o \in BOOLEAN :
          \E gk \in GenFor(NeedsKey(d)) :
              Add(d, None, o, gk) /\ UNCHANGED aside

SpecGen == InitPlain /\ [][GenCalls]_vars

\* add, get, drop and the root's Base(name) on one base
GetCalls ==
    \/ \E d \in Docs, k \in KeyArgs, o \in BOOLEAN :
          \E gk \in GenFor(~truthy(k) /\ NeedsKey(d)) :
              Add(d, k, o, gk) /\ UNCHANGED aside
    \/ \E k \in KeyArgs : GetKey(k)
    \/ \E main_only \in BOOLEAN : Drop(Name, main_only)
    \/ OakBase(Name)

SpecGet == InitPlain /\ [][GetCalls]_vars

\* a base that a sequence of adds has filled, opened with lexical search
\* enabled or, empty, without it
InitSearch ==
    /\ search_enabled \in BOOLEAN
    /\ scan \in IF search_enabled THEN DistinctSeqs(FetchKeys, MaxRows) ELSE {<<>>}
    /\ tbl \in [Range(scan) -> StoredRows]
    /\ fts = IF search_enabled THEN FtsOf(tbl) ELSE EmptyBag
    /\ fts_rows = IF search_enabled
                  THEN [i \in 1..Len(scan) |-> FtsRow(scan[i], tbl[scan[i]])]
                  ELSE <<>>
    /\ vec = Empty
    /\ schema = IF search_enabled
                THEN {MainTable, ConfTable, FtsTable} \cup FtsTriggers
                ELSE {MainTable, ConfTable}
    /\ conf = IF search_enabled THEN SearchFlag :> "1" ELSE Empty
    /\ vector_enabled = FALSE
    /\ vec_enabled = FALSE /\ ext_loaded = FALSE
    /\ VECTOR_DEPS = FALSE
    /\ now = MaxTime
    /\ resp = [R0 EXCEPT !.op = "construct"]
    /\ _bases = Name :> BaseObject(Name, 1)
    /\ caller_items = <<>>
    /\ connections = <<>>
    /\ other = [tbl |-> <<>>, fts |-> EmptyBag, search_enabled |-> FALSE]
    /\ adding = <<>>

\* the queries search is called with
SearchQueries ==
    {Scalar("str", "x"), Scalar("str", "1"), Scalar("str", ""), Scalar("str", " "),
     Scalar("num", "5")}

\* the filters search is called with
SearchFilters ==
    {NoFilter, NotAFilter, Dict(<<Entry(<<"x", "gte">>, Scalar("num", "2"))>>),
     Groups(<<<<Entry(<<"x">>, Scalar("num", "1"))>>,
              <<Entry(<<"_key">>, Scalar("str", "k"))>>>>)}

SearchOrders == {"rank__desc", "key__asc", "zz"}

\* the limits and pages of the calls, below 1 included
Limits == (-1..MaxLimit) \cup {DefaultSearchLimit}
Pages == -1..MaxPage

\* the first call made on the base opened: a search or a fetch
SearchCalls ==
    /\ resp.op = "construct"
    /\ \/ \E q \in SearchQueries, f \in SearchFilters, l \in Limits,
             o \in SearchOrders, p \in Pages :
              Search(q, f, l, o, p)
       \/ \E f \in {NoFilter, Dict(<<Entry(<<"x", "gte">>, Scalar("num", "2"))>>)},
             l \in Limits, o \in {"created__desc", "key__asc"}, p \in Pages :
              Fetch(f, l, o, p)

SpecSearch == InitSearch /\ [][SearchCalls]_vars

\* entries that are malformed: an unknown operator, more than one __, a
\* range that is no pair, an in or !in that is no list
MalformedEntries ==
    { Entry(<<"x", "zz">>, Scalar("num", "1")),
      Entry(<<"_key", "like">>, Scalar("str", "k")),
      Entry(<<"a", "b", "c">>, Scalar("num", "1")),
      Entry(<<"x", "gte", "zz">>, Scalar("num", "1")),
      Entry(<<"x", "range">>, List(<<>>)),
      Entry(<<"x", "range">>, List(<<Scalar("num", "1")>>)),
      Entry(<<"x", "range">>,
            List(<<Scalar("num", "1"), Scalar("num", "2"), Scalar("num", "3")>>)),
      Entry(<<"x", "range">>, Scalar("num", "1")),
      Entry(<<"_created", "range">>, Scalar("str", "ab")),
      Entry(<<"x", "range">>, None),
      Entry(<<"x", "in">>, Scalar("num", "1")),
      Entry(<<"x", "!in">>, Scalar("str", "ab")),
      Entry(<<"_key", "in">>, Scalar("str", "k")),
      Entry(<<"x", "!in">>, None) }

\* entries that are well formed
SoundEntries ==
    { Entry(<<"x">>, Scalar("num", "1")),
      Entry(<<"x", "range">>, List(<<Scalar("num", "1"), Scalar("num", "2")>>)) }

\* the filters of the calls: a malformed entry alone, after a well-formed one,
\* and in the second mapping of a list; and well-formed filters
MalformedFilters ==
    {Dict(<<e>>) : e \in MalformedEntries \cup SoundEntries}
    \cup {Dict(<<s, e>>) : s \in SoundEntries, e \in MalformedEntries}
    \cup {Groups(<<<<s>>, <<e>>>>) : s \in SoundEntries,
                                      e \in MalformedEntries \cup SoundEntries}

\* the first call made on the base opened: a fetch with one of the filters
MalformedCalls ==
    /\ resp.op = "construct"
    /\ \E f \in MalformedFilters, l \in {1, DefaultLimit},
          o \in {"created__desc", "key__asc"} :
           Fetch(f, l, o, 1)

SpecMalformed == InitFetch /\ [][MalformedCalls]_vars

\* SQLiteBackend.add up to the conn.commit() of its INSERT
add_insert(db, key, data, override) ==
    SqlInsert(db, key, data,
              IF override /\ key \in DOMAIN db.tbl THEN db.tbl[key].created ELSE now,
              override)

\* a thread in Base.add on a base with vector search enabled, up to the
\* commit of the INSERT of SQLiteBackend.add
AddInsert(data, key, override) ==
    /\ adding = <<>>
    /\ vector_enabled /\ vec_enabled
    /\ \E ins \in {add_insert(DB, key, dumps(data), override)} :
          IF ins.exc # ""
          THEN /\ resp' = IF ins.exc = "IntegrityError"
                          THEN [R0 EXCEPT !.op = "add", !.k = key,
                                          !.error = AlreadyExists(key)]
                          ELSE [R0 EXCEPT !.op = "add", !.k = key, !.exc = ins.exc]
               /\ UNCHANGED <<store, adding>>
          ELSE /\ SetDB(ins.db)
               /\ adding' = <<key, dumps(data)>>
               /\ resp' = [R0 EXCEPT !.op = "add", !.k = key, !.ret = "INSERT committed"]
               /\ UNCHANGED <<schema, conf>>
    /\ UNCHANGED <<base, backend, now, _bases, scan, caller_items, fts_rows,
                   connections, other>>

\* the same thread from there on: add_embedding, its UPDATE committed, and
\* the return of Base.add
AddEmbedding ==
    /\ adding # <<>>
    /\ \E out \in {add_embedding(DB, adding[1], adding[2])} :
          /\ SetDB(out.db)
          /\ resp' = IF out.exc = ""
                     THEN [R0 EXCEPT !.op = "add", !.k = adding[1], !.key = adding[1]]
                     ELSE [R0 EXCEPT !.op = "add", !.k = adding[1], !.exc = out.exc]
    /\ adding' = <<>>
    /\ UNCHANGED <<schema, conf, base, backend, now, _bases, scan, caller_items,
                   fts_rows, connections, other>>

\* a reader on another thread, with the connection of its own that
\* SQLiteBackend.connection gives it: the keys of the committed rows of
\* the primary table and of the vector mirror, read in one statement
Observe ==
    /\ vector_enabled
    /\ resp' = [op |-> "observe", exc |-> "", rows |-> DOMAIN tbl,
                mirror |-> DOMAIN vec]
    /\ UNCHANGED <<store, base, backend, now, aside>>

\* the threads of a process that enables vector search on a new base and
\* adds records to it, while another thread reads
ThreadsNext ==
    \/ adding = <<>> /\ EnableVector /\ UNCHANGED aside
    \/ \E d \in Docs, k \in Keys, o \in BOOLEAN : AddInsert(d, k, o)
    \/ AddEmbedding
    \/ Observe
    \/ adding = <<>> /\ Tick /\ UNCHANGED aside

SpecThreads == InitVector /\ [][ThreadsNext]_vars

\* the names Oak.Base is called with
BaseNames == {Name, "b", "c"}

\* the calls made through root handles on one backend: bases are opened,
\* filled and dropped, and a new root handle is made over the backend
RootCalls ==
    \/ \E n \in BaseNames : OakBase(n)
    \/ Oak
    \/ \E m \in BOOLEAN : Drop(Name, m)
    \/ \E d \in Docs, o \in BOOLEAN :
          \E gk \in GenFor(NeedsKey(d)) : Add(d, None, o, gk) /\ UNCHANGED aside

SpecRoot == InitPlain /\ [][RootCalls]_vars

\* the ? of a statement in the order of its text: the filter's ? are where
\* the f-string of the builder puts the WHERE clause
FilterSlots(where) ==
    [j \in 1..HolesIn(Flat(where), Len(Flat(where))) |-> <<"filter", j>>]

Slots(builder, where, count) ==
    CASE builder = "fetch" ->
            FilterSlots(where)
            \o (IF count THEN <<>> ELSE << <<"limit", 0>>, <<"offset", 0>> >>)
      [] builder = "search" ->
            << <<"query", 0>> >> \o FilterSlots(where)
            \o (IF count THEN <<>> ELSE << <<"limit", 0>>, <<"offset", 0>> >>)
      [] OTHER ->
            << <<"query", 0>>, <<"limit", 0>> >> \o FilterSlots(where)

\* what each element of the parameter list of a builder is, by the append
\* and extend calls that made the list
Roles(builder, params, count) ==
    CASE builder = "fetch" ->
            [j \in 1..(Len(params) - (IF count THEN 0 ELSE 2)) |-> <<"filter", j>>]
            \o (IF count THEN <<>> ELSE << <<"limit", 0>>, <<"offset", 0>> >>)
      [] builder = "search" ->
            << <<"query", 0>> >>
            \o [j \in 1..(Len(params) - (IF count THEN 1 ELSE 3)) |-> <<"filter", j>>]
            \o (IF count THEN <<>> ELSE << <<"limit", 0>>, <<"offset", 0>> >>)
      [] OTHER ->
            << <<"query", 0>> >>
            \o [j \in 1..(Len(params) - 2) |-> <<"filter", j>>]
            \o << <<"limit", 0>> >>

\* the arguments the builders are called with
BuilderFilters ==
    { NoFilter,
      Dict(<<Entry(<<"x">>, Scalar("num", "1"))>>),
      Dict(<<Entry(<<"x", "gte">>, Scalar("num", "2")),
             Entry(<<"s", "starts">>, Scalar("str", "a"))>>),
      Dict(<<Entry(<<"x">>, None), Entry(<<"_key">>, Scalar("str", "k"))>>),
      Dict(<<Entry(<<"x", "zz">>, Scalar("num", "1"))>>),
      Groups(<< <<Entry(<<"x", "range">>,
                        List(<<Scalar("num", "1"), Scalar("num", "2")>>))>>,
                <<Entry(<<"s">>, Scalar("str", "a"))>> >>) }
BuilderOrders == {"key__asc", "rank__desc", "distance__asc"}
BuilderLimit == 3
BuilderOffset == 6

\* the text or vector a builder is given to match
BuilderQuery(builder) ==
    IF builder = "search" THEN Scalar("str", "ab") ELSE Scalar("bytes", "f32")

\* build_fetch, build_search or build_vsearch called as the backend and the
\* tests of queries.py call them
Build(builder, conditions, order, count) ==
    /\ \E q \in { CASE builder = "fetch" ->
                         build_fetch(conditions, BuilderLimit, BuilderOffset, order, count)
                    [] builder = "search" ->
                         build_search(BuilderQuery(builder), conditions, BuilderLimit,
                                      BuilderOffset, order, count)
                    [] OTHER ->
                         build_vsearch(BuilderQuery(builder), conditions, BuilderLimit,
                                       order, count, "cosine") } :
          resp' = [op |-> "build", exc |-> q.exc, builder |-> builder,
                   conditions |-> conditions, order |-> order, count |-> count,
                   params |-> q.params,
                   roles |-> IF q.exc = "" THEN Roles(builder, q.params, count) ELSE <<>>,
                   slots |-> IF q.exc = "" THEN Slots(builder, q.where, count) ELSE <<>>]
    /\ UNCHANGED <<store, base, backend, now, aside>>

\* one statement built
BuildCalls ==
    /\ resp.op = "construct"
    /\ \E b \in {"fetch", "search", "similar"}, f \in BuilderFilters,
          o \in BuilderOrders, c \in BOOLEAN :
           Build(b, f, o, c)

SpecBuilders == InitPlain /\ [][BuildCalls]_vars

\* the threads that use the backend beside the one that made it
Threads == {"t1", "t2"}

\* SQLiteBackend.connection on thread t: the connection the thread has, or
\* the one _initialize_connection makes for it now, the extension loaded when
\* vec_enabled is set at that moment
Connection(t) == IF t \in DOMAIN connections THEN connections[t] ELSE vec_enabled

\* a record of a call made on thread t; loaded: its connection had the
\* extension when the statement was compiled
ThreadCall(op, t, exc, error) ==
    [op |-> op, thread |-> t, loaded |-> Connection(t), exc |-> exc, error |-> error]

\* Base.get on thread t, the first use of the backend by the thread or a
\* later one
ThreadGet(t, key) ==
    /\ connections' = (t :> Connection(t)) @@ connections
    /\ resp' = ThreadCall("get", t, "", IF key \in DOMAIN tbl THEN "" ELSE "Key not found")
    /\ UNCHANGED <<store, base, backend, now, _bases, scan, caller_items, fts_rows,
                   adding, other>>

\* Base.add on thread t, vector search being enabled: a write that fires
\* the vector triggers.  The statement is compiled on the connection of t;
\* without the extension there the vec0 table of the triggers cannot be
\* opened.  (A connection of t that has the extension was made after
\* enable_vector, so the connection of the enabling thread has it too.)
ThreadAdd(t, data, key, override) ==
    /\ vector_enabled
    /\ connections' = (t :> Connection(t)) @@ connections
    /\ IF ~Connection(t)
       THEN /\ resp' = ThreadCall("add", t, "OperationalError", "no such module: vec0")
            /\ UNCHANGED store
       ELSE \E out \in {backend_add(DB, key, dumps(data), override)} :
               /\ SetDB(out.db)
               /\ resp' = CASE out.exc = "" -> ThreadCall("add", t, "", "")
                            [] out.exc = "IntegrityError" ->
                                  ThreadCall("add", t, "", AlreadyExists(key))
                            [] OTHER -> ThreadCall("add", t, out.exc, "")
               /\ UNCHANGED <<schema, conf>>
    /\ UNCHANGED <<base, backend, now, _bases, scan, caller_items, fts_rows, adding,
                   other>>

\* Base.similar on thread t, vector search being enabled, as far as its
\* statement is compiled: it joins {base}_vec, which the connection opens
\* only with the extension; what sqlite-vec answers is not followed
ThreadSimilar(t) ==
    /\ vector_enabled
    /\ connections' = (t :> Connection(t)) @@ connections
    /\ resp' = ThreadCall("similar", t, "",
                          IF Connection(t) THEN "" ELSE "no such module: vec0")
    /\ UNCHANGED <<store, base, backend, now, _bases, scan, caller_items, fts_rows,
                   adding, other>>

\* a process whose first thread makes the backend and enables vector search
\* while other threads use the same backend
ConnectionsNext ==
    \/ EnableVector /\ UNCHANGED aside
    \/ \E t \in Threads, k \in Keys : ThreadGet(t, k)
    \/ \E t \in Threads, d \in Docs, k \in Keys, o \in BOOLEAN : ThreadAdd(t, d, k, o)
    \/ \E t \in Threads : ThreadSimilar(t)

SpecConnections == InitVector /\ [][ConnectionsNext]_vars

\* the second base of the backend and what it owns in the file
OtherName == "b"
OtherFts == OtherName \o "_fts"
OtherTriggers == {OtherName \o "_ai", OtherName \o "_au", OtherName \o "_ad"}
OtherNames == {OtherName, OtherFts} \cup OtherTriggers
OtherFlagKeys == {OtherName \o "_search", OtherName \o "_vector"}

\* the persisted flags of the second base
OtherFlags(c) == Restrict(c, DOMAIN c \cap OtherFlagKeys)

\* a record of a call made on the second base; embedded: how many times the
\* call invoked the embedder
OtherCall(op, exc, ret, error, embedded) ==
    [op |-> op, base |-> OtherName, exc |-> exc, ret |-> ret, error |-> error,
     embedded |-> embedded]

\* INSERT INTO b(key, data, created, updated) VALUES(...), with the insert
\* trigger of its mirror
OtherInsert(o, key, data) ==
    IF OtherName \notin schema
    THEN [exc |-> "OperationalError", o |-> o]
    ELSE IF OtherName \o "_ai" \in schema /\ OtherFts \notin schema
    THEN [exc |-> "OperationalError", o |-> o]
    ELSE IF key \in DOMAIN o.tbl
    THEN [exc |-> "IntegrityError", o |-> o]
    ELSE [exc |-> "",
          o |-> [o EXCEPT !.tbl = (key :> [data |-> data, embedding |-> <<>>]) @@ @,
                          !.fts = IF OtherName \o "_ai" \in schema
                                  THEN @ (+) SetToBag({key}) ELSE @]]

\* UPDATE b SET embedding = ? WHERE key = ?, with the update trigger of its
\* mirror, which deletes the rows of the key and inserts one
OtherUpdateEmbedding(o, key, embedding) ==
    [o EXCEPT !.tbl[key].embedding = embedding,
              !.fts = IF OtherName \o "_au" \in schema THEN (key :> 1) @@ @ ELSE @]

\* cur.executemany(INSERT ...) on b: stops at the first statement that fails
RECURSIVE OtherInsertMany(_, _)
OtherInsertMany(o, items) ==
    IF items = <<>> THEN [exc |-> "", o |-> o]
    ELSE LET r == OtherInsert(o, Head(items)[1], Head(items)[2])
         IN  IF r.exc # "" THEN r ELSE OtherInsertMany(r.o, Tail(items))

\* adds_embedding on b: executemany(UPDATE ...)
RECURSIVE OtherUpdateMany(_, _)
OtherUpdateMany(o, items) ==
    IF items = <<>> THEN o
    ELSE OtherUpdateMany(OtherUpdateEmbedding(o, Head(items)[1], Emb(Head(items)[2])),
                         Tail(items))

\* Base.add on the second base, with a key of its own and no override:
\* SQLiteBackend.add("b", ...) tests the vec_enabled of the backend
OtherAdd(data, key) ==
    /\ OtherName \in DOMAIN _bases
    /\ \E ins \in {OtherInsert(other, key, dumps(data))} :
          IF ins.exc # ""
          THEN /\ resp' = IF ins.exc = "IntegrityError"
                          THEN OtherCall("add", "", "", AlreadyExists(key), 0)
                          ELSE OtherCall("add", ins.exc, "", "", 0)
               /\ UNCHANGED other
          ELSE /\ other' = IF vec_enabled
                           THEN OtherUpdateEmbedding(ins.o, key, Emb(dumps(data)))
                           ELSE ins.o
               /\ resp' = OtherCall("add", "", key, "", IF vec_enabled THEN 1 ELSE 0)
    /\ BagCardinality(other'.fts) <= MaxFts
    /\ UNCHANGED <<store, base, backend, now, _bases, scan, caller_items, fts_rows,
                   adding, connections>>

\* Base.adds on the second base, the items carrying their keys, no override
OtherAdds(items) ==
    /\ OtherName \in DOMAIN _bases
    /\ \E ins \in {OtherInsertMany(other, items)} :
          IF ins.exc # ""
          THEN /\ resp' = OtherCall("adds", "", "", ins.exc, 0)
               /\ UNCHANGED other
          ELSE /\ other' = IF vec_enabled THEN OtherUpdateMany(ins.o, items) ELSE ins.o
               /\ resp' = OtherCall("adds", "", "True", "", IF vec_enabled THEN 1 ELSE 0)
    /\ BagCardinality(other'.fts) <= MaxFts
    /\ UNCHANGED <<store, base, backend, now, _bases, scan, caller_items, fts_rows,
                   adding, connections>>

\* Base.enable_search on the second base: create_fts_table("b"), then
\* set_config("b_search", "1")
OtherEnableSearch ==
    /\ OtherName \in DOMAIN _bases
    /\ IF other.search_enabled
       THEN /\ resp' = OtherCall("enable_search", "", "already enabled", "", 0)
            /\ UNCHANGED <<schema, conf, other>>
       ELSE IF OtherName \notin schema
       THEN /\ schema' = schema \cup {OtherFts}
            /\ resp' = OtherCall("enable_search", "ValueError", "", "", 0)
            /\ UNCHANGED <<conf, other>>
       ELSE /\ schema' = schema \cup {OtherFts} \cup OtherTriggers
            /\ BagCardinality(other.fts (+) SetToBag(DOMAIN other.tbl)) <= MaxFts
            /\ IF ConfTable \notin schema
               THEN /\ other' = [other EXCEPT !.fts = @ (+) SetToBag(DOMAIN other.tbl)]
                    /\ resp' = OtherCall("enable_search", "ValueError", "", "", 0)
                    /\ UNCHANGED conf
               ELSE /\ other' = [other EXCEPT !.fts = @ (+) SetToBag(DOMAIN other.tbl),
                                              !.search_enabled = TRUE]
                    /\ conf' = (OtherName \o "_search" :> "1") @@ conf
                    /\ resp' = OtherCall("enable_search", "", "enabled", "", 0)
    /\ UNCHANGED <<tbl, fts, vec, base, backend, now, _bases, scan, caller_items,
                   fts_rows, adding, connections>>

\* Base.disable_search on the second base: drop_tables("b", "search"), then
\* set_config("b_search", "0")
OtherDisableSearch ==
    /\ OtherName \in DOMAIN _bases
    /\ schema' = schema \ ({OtherFts} \cup OtherTriggers)
    /\ IF ConfTable \notin schema
       THEN /\ other' = [other EXCEPT !.fts = EmptyBag]
            /\ resp' = OtherCall("disable_search", "ValueError", "", "", 0)
            /\ UNCHANGED conf
       ELSE /\ other' = [other EXCEPT !.fts = EmptyBag, !.search_enabled = FALSE]
            /\ conf' = (OtherName \o "_search" :> "0") @@ conf
            /\ resp' = OtherCall("disable_search", "", "True", "", 0)
    /\ UNCHANGED <<tbl, fts, vec, base, backend, now, _bases, scan, caller_items,
                   fts_rows, adding, connections>>

\* the batches adds is given on the second base
OtherBatches ==
    { <<<<"k", dumps(Num("1"))>>>>,
      <<<<"1", dumps(Num("1"))>>, <<"k", dumps(Num("1"))>>>> }

\* two bases of one root handle, the first enabled, written and dropped
\* while the second is used
BasesNext ==
    \/ OakBase(OtherName)
    \/ EnableSearch /\ UNCHANGED aside
    \/ EnableVector /\ UNCHANGED aside
    \/ \E m \in BOOLEAN : Drop(Name, m)
    \/ \E d \in Docs, o \in BOOLEAN : Add(d, Scalar("str", "k"), o, "") /\ UNCHANGED aside
    \/ \E d \in Docs, k \in Keys : OtherAdd(d, k)
    \/ \E items \in OtherBatches : OtherAdds(items)
    \/ OtherEnableSearch
    \/ OtherDisableSearch

SpecBases == InitVector /\ [][BasesNext]_vars

\* the keys of the items of a response
KeySet(items) == {items[i].key : i \in 1..Len(items)}

\* the items of pages 1..n of a fetch on the table as it is, one page after
\* the other
RECURSIVE PagesItems(_, _, _, _)
PagesItems(filters, limit, order, n) ==
    IF n = 0 THEN <<>>
    ELSE PagesItems(filters, limit, order, n - 1)
         \o fetch(tbl, scan, schema, filters, limit, order, n).items

\* the keys of the records a filter matches: those that are counted when
\* they are alone in the table
Matching(filters) ==
    {k \in Range(scan) :
        fetch_query(tbl, <<k>>, schema, filters, TRUE, 1, 0, "").rows = <<1>>}

\* fetch clamps limit and page to 1 from below
AtLeastOne(n) == IF n < 1 THEN 1 ELSE n

\* the filter compiles and its count query runs
Countable(filters) ==
    /\ filters.kind \in {"list", "dict", "none"}
    /\ fetch_query(tbl, scan, schema, filters, TRUE, 1, 0, "").exc = ""

\* C14: for a fetch that succeeds with a valid order, pages is
\* ceil(total/limit), and the items of pages 1..pages fetched on the same
\* table with the same filter, limit and order hold each matching record
\* exactly once, total of them in all.
C14_PaginationExact ==
    (resp.op = "fetch" /\ resp.out.error = "" /\ resp.order \in OrderFetch)
    => LET all == PagesItems(resp.filters, resp.limit, resp.order, resp.out.pages)
       IN  /\ resp.out.pages
                = (resp.out.total + AtLeastOne(resp.limit) - 1) \div AtLeastOne(resp.limit)
           /\ Len(all) = resp.out.total
           /\ \A i, j \in 1..Len(all) : i # j => all[i].key # all[j].key
           /\ KeySet(all) = Matching(resp.filters)

\* C14 happens: a filtered fetch of three matching records, two to a page,
\* some of them with the same sort key
C14_Witness ==
    /\ resp.op = "fetch" /\ resp.out.error = "" /\ resp.order = "created__desc"
    /\ resp.filters.kind = "list"
    /\ resp.limit = 2 /\ resp.out.pages = 2 /\ resp.out.total = 3
    /\ \E a, b \in Range(scan) : a # b /\ tbl[a].created = tbl[b].created

\* C15: a fetch whose filter can be counted and whose page is after the
\* last one (any page when nothing matches) returns no items and no error,
\* and reports the page asked for, the pages and the total.
C15_PageBeyondLast ==
    (/\ resp.op = "fetch" /\ Countable(resp.filters)
     /\ AtLeastOne(resp.page) * AtLeastOne(resp.limit)
            >= Cardinality(Matching(resp.filters)) + AtLeastOne(resp.limit))
    => /\ resp.out.items = <<>> /\ resp.out.error = ""
       /\ resp.out.page = AtLeastOne(resp.page)
       /\ resp.out.total = Cardinality(Matching(resp.filters))
       /\ resp.out.pages
            = (resp.out.total + AtLeastOne(resp.limit) - 1) \div AtLeastOne(resp.limit)

\* C15 happens: page 3 was asked of a fetch that has two pages
C15_Witness ==
    /\ resp.op = "fetch" /\ resp.page = 3 /\ resp.out.pages = 2
    /\ resp.out.total = 3 /\ resp.out.items = <<>> /\ resp.out.error = ""

\* C16: a fetch whose order is none of {key,data,created,updated}__{asc,desc}
\* returns a response with an error, whatever the table, the filter and
\* the page.
C16_InvalidOrderRejected ==
    (resp.op = "fetch" /\ resp.order \notin OrderFetch) => resp.out.error # ""

\* C17: a fetch of all the records with a list of two groups returns the
\* records that the fetches with each group alone return.
C17_OrGroupDecomposition ==
    (/\ resp.op = "fetch" /\ resp.filters.kind = "list"
     /\ Len(resp.filters.groups) = 2
     /\ resp.order \in OrderFetch /\ resp.limit = DefaultLimit /\ resp.page = 1)
    => KeySet(resp.out.items)
         = KeySet(fetch(tbl, scan, schema, Dict(resp.filters.groups[1]),
                        resp.limit, resp.order, resp.page).items)
           \cup KeySet(fetch(tbl, scan, schema, Dict(resp.filters.groups[2]),
                             resp.limit, resp.order, resp.page).items)

\* C18: a condition that compiles without error binds as many parameters as
\* its SQL fragment has ? placeholders.
C18_ParamsMatchPlaceholders ==
    (resp.op = "Condition" /\ resp.out.exc = "")
    => Len(resp.out.param) = Placeholders(resp.out.sql)

\* C19: an add with an explicit key k, a non-empty string or a number, that
\* succeeds stores the record under str(k): get(k) made next returns the
\* record and delete(k) made next deletes it.
C19_ExplicitKeyAddresses ==
    [][(CallOf("add") /\ resp'.arg # "None" /\ resp'.exc = "" /\ resp'.error = "")
        => /\ resp'.key = resp'.arg
           /\ Get(DB', Scalar("str", resp'.arg)).error = ""
           /\ Get(DB', Scalar("str", resp'.arg)).data = resp'.data
           /\ backend_delete(DB', resp'.arg).rows = 1]_vars

\* C20: adds leaves the caller's items as they were: after the call every
\* mapping of the list has the entries it had before, its "key" entry too.
C20_AddsKeepsCallerItems ==
    [][CallOf("adds") => caller_items' = caller_items]_vars

\* C21: the keys genkey() gives are new: an adds of a list none of whose
\* items carries a key stores one more record for each item, and an add of
\* data without a key, called without a key, never meets a stored key.
C21_GeneratedKeysUnique ==
    [][/\ (/\ CallOf("adds") /\ caller_items # <<>>
           /\ \A i \in 1..Len(caller_items) : NeedsKey(caller_items[i]))
          => /\ resp'.success
             /\ Cardinality(DOMAIN tbl')
                  = Cardinality(DOMAIN tbl) + Len(caller_items)
       /\ (CallOf("add") /\ resp'.arg = "None" /\ resp'.data = Num("1"))
          => resp'.pre = "fresh"]_vars

\* C22: a delete of a valid key k answers deleted = true exactly when k was
\* stored; after it get(k) answers "Key not found", a second delete(k)
\* deletes nothing, and every other record is as it was.
C22_DeleteReports ==
    [][(CallOf("delete") /\ resp'.error = "")
        => /\ resp'.exc = ""
           /\ (resp'.ret = "True") <=> (resp'.key \in DOMAIN tbl)
           /\ Get(DB', Scalar("str", resp'.key)).error = "Key not found"
           /\ backend_delete(DB', resp'.key).rows = 0
           /\ tbl' = Restrict(tbl, DOMAIN tbl \ {resp'.key})]_vars

\* C23: a deletes of a non-empty sequence of keys answers the number of
\* stored records whose key is among them, removes those records and no
\* other, and leaves the other records as they were.
C23_DeletesCountsAndFrame ==
    [][\A keys \in Batches(Keys) \ {<<>>} :
          (CallOf("deletes") /\ Deletes(keys))
          => /\ resp'.error = "" /\ resp'.exc = ""
             /\ resp'.n = Cardinality(Range(keys) \cap DOMAIN tbl)
             /\ tbl' = Restrict(tbl, DOMAIN tbl \ Range(keys))]_vars

\* C24: get raises for no key and leaves the store as it was; it answers
\* the invalid key type message for a key that is no string and no number, "Key is
\* empty" for the empty string and "Key not found" for a key not stored.
C24_GetNeverRaises ==
    [][\A key \in KeyArgs :
          (CallOf("get") /\ GetKey(key))
          => /\ resp'.exc = ""
             /\ UNCHANGED store
             /\ key.t \notin {"str", "num"} => resp'.error = InvalidKeyType
             /\ key = Scalar("str", "") => resp'.error = "Key is empty"
             /\ (key.t \in {"str", "num"} /\ key # Scalar("str", "")
                 /\ str(key) \notin DOMAIN tbl) => resp'.error = "Key not found"]_vars

\* the items of the call recorded in resp when it is made for the first page
\* with the default limit: every row of the result, in order
Unpaged ==
    IF resp.op = "fetch"
    THEN fetch(tbl, scan, schema, resp.filters, DefaultSearchLimit, resp.order, 1).items
    ELSE search(fts_rows, schema, resp.query, resp.filters, DefaultSearchLimit,
                resp.order, 1).items

C26_NullConditions ==
    (resp.op = "Condition" /\ resp.value = None)
    => IF resp.operator \in {"eq", "ne"}
       THEN /\ resp.out.exc = ""
            /\ resp.out.sql.tpl = (IF resp.operator = "eq" THEN "{} IS NULL"
                                   ELSE "{} IS NOT NULL")
            /\ resp.out.sql.fe = field_expression(resp.field, "data")
            /\ Placeholders(resp.out.sql) = 0
            /\ resp.out.param = <<>>
       ELSE resp.out.exc = "ValueError"

\* C26: a condition on a column with the value null was compiled with ne
C26_Witness ==
    /\ resp.op = "Condition" /\ resp.value = None
    /\ resp.operator = "ne" /\ resp.field = "_key" /\ resp.out.exc = ""
    /\ resp.out.sql.tpl = "{} IS NOT NULL" /\ resp.out.param = <<>>

\* an entry of a filter that names an unknown operator, has more than one __
\* in its field spec, gives range a value that is no list of two, or gives in
\* or !in a value that is no list
MalformedEntry(e) ==
    \/ Len(e.parts) > 2
    \/ /\ Len(e.parts) = 2
       /\ \/ e.parts[2] \notin DOMAIN JSON_OPERATORS
          \/ e.parts[2] = "range" /\ ~(e.value.t = "list" /\ Len(e.value.v) = 2)
          \/ e.parts[2] \in {"in", "!in"} /\ e.value.t # "list"

MalformedFilter(f) ==
    /\ f.kind \in {"dict", "list"}
    /\ \E g \in 1..Len(f.groups) : \E i \in 1..Len(f.groups[g]) :
          MalformedEntry(f.groups[g][i])

\* C27: a fetch with a filter that has a malformed entry is rejected before
\* any statement is executed: building the statement raises, the response
\* carries a non-empty error and no items, and the store is unchanged.
C27_MalformedFilterRejected ==
    [][(CallOf("fetch") /\ MalformedFilter(resp'.filters))
        => /\ build_fetch(resp'.filters, 1, 0, "", TRUE).exc = "ValueError"
           /\ resp'.exc = ""
           /\ resp'.out.error # ""
           /\ resp'.out.error = build_fetch(resp'.filters, 1, 0, "", TRUE).msg
           /\ resp'.out.items = <<>>
           /\ UNCHANGED store]_vars

\* C27: on a base that holds records, a fetch whose filter has a field spec
\* with more than one __ after a well-formed entry answered with an error
C27_Witness ==
    /\ resp.op = "fetch" /\ tbl # Empty
    /\ resp.filters.kind = "dict" /\ Len(resp.filters.groups[1]) = 2
    /\ resp.filters.groups[1][2].parts = <<"x", "gte", "zz">>
    /\ resp.out.error = "More than one __ in query" /\ resp.out.items = <<>>

\* C28: a record that add or adds inserts under a key that was not stored
\* has created = updated, and in every state every stored record has
\* updated >= created.
C28_CreatedUpdated ==
    /\ [](\A k \in DOMAIN tbl : tbl[k].updated >= tbl[k].created)
    /\ [][(CallOf("add") \/ CallOf("adds"))
          => \A k \in DOMAIN tbl' \ DOMAIN tbl :
                /\ tbl'[k].created = tbl'[k].updated
                /\ Timestamp(tbl'[k].created) = Timestamp(tbl'[k].updated)]_vars

\* C28: after the clock moved, an add with override has inserted a record
\* under a key not stored before, next to a record replaced after it was
\* created
C28_Witness ==
    /\ resp.op = "add" /\ resp.override /\ resp.pre = "fresh" /\ resp.error = ""
    /\ resp.key \in DOMAIN tbl
    /\ tbl[resp.key].created = now /\ tbl[resp.key].updated = now /\ now > 0
    /\ \E k \in DOMAIN tbl : tbl[k].updated > tbl[k].created

\* C29: with vector search enabled, a reader on any thread finds, for every
\* committed row of the primary table, the row of the vector mirror: the
\* two become visible in the same transaction.
C29_MirrorVisibleWithPrimary ==
    (resp.op = "observe" /\ vector_enabled) => resp.rows \subseteq resp.mirror

\* C30: on one root handle, Base(name) with a name that was asked for before
\* returns the Base object it returned then, without constructing a Base or
\* initialising the schema; a name not asked for before gets a Base object
\* that differs from those of the other names and holds the handle's backend,
\* the Bases memoized staying as they are.
C30_BaseMemoized ==
    /\ [](\A n1, n2 \in DOMAIN _bases :
            /\ _bases[n1].backend = _bases[n2].backend
            /\ _bases[n1].name = n1
            /\ n1 # n2 => _bases[n1].id # _bases[n2].id)
    /\ [][CallOf("Base")
          => IF resp'.arg \in DOMAIN _bases
             THEN /\ resp'.ret = "memoized"
                  /\ resp'.n = _bases[resp'.arg].id
                  /\ _bases' = _bases
                  /\ UNCHANGED <<store, base, backend>>
             ELSE /\ resp'.ret = "new"
                  /\ DOMAIN _bases' = DOMAIN _bases \cup {resp'.arg}
                  /\ _bases'[resp'.arg].id = resp'.n
                  /\ \A n \in DOMAIN _bases :
                        _bases'[n] = _bases[n] /\ _bases[n].id # resp'.n]_vars

\* C30: the handle, holding the Bases of two names, was asked for one of them
\* again after the base was dropped, and returned the Base it held
C30_Witness ==
    /\ resp.op = "Base" /\ resp.ret = "memoized" /\ resp.arg = Name
    /\ resp.pre = "dropped"
    /\ {Name, "b"} \subseteq DOMAIN _bases
    /\ resp.n = _bases[Name].id /\ _bases["b"].id # resp.n

\* the parameters of the entries of a filter, in the order of the filter
EntryParams(e) ==
    Condition(IF Len(e.parts) > 1 THEN e.parts[2] ELSE "eq", e.parts[1], e.value,
              "data").param

RECURSIVE ParamsOf(_)
ParamsOf(entries) ==
    IF entries = <<>> THEN <<>>
    ELSE EntryParams(Head(entries)) \o ParamsOf(Tail(entries))

FilterParams(conditions) == ParamsOf(Flat(conditions.groups))

\* C31: the parameter list of every builder is the match or vector query
\* (search and similar only), then the filter's parameters in the order of
\* the filter, then limit and offset; limit and offset are left out in count
\* mode, and offset is left out for similar.
C31_ParameterOrder ==
    (resp.op = "build" /\ resp.exc = "")
    => resp.params
       = (IF resp.builder = "fetch" THEN <<>> ELSE <<BuilderQuery(resp.builder)>>)
         \o FilterParams(resp.conditions)
         \o (IF resp.count THEN <<>>
             ELSE IF resp.builder = "similar" THEN <<Scalar("int", BuilderLimit)>>
             ELSE <<Scalar("int", BuilderLimit), Scalar("int", BuilderOffset)>>)

\* the item query of the search recorded, run without paging
SearchMatched ==
    search_query(fts_rows, schema, resp.query, resp.filters, FALSE,
                 MaxRows + 1, 0, resp.order)

\* C32: search paginates as fetch does: the total it reports is the number
\* of rows its item query matches, whatever the mirror holds, the match query
\* and the filter.
C32_SearchTotalIsRowsMatched ==
    (resp.op = "search" /\ resp.exc = "" /\ resp.out.error = ""
        /\ truthy(resp.query) /\ SearchMatched.exc = "")
    => resp.out.total = Len(SearchMatched.rows)

\* C33: right after enable_search has returned "enabled" the lexical mirror
\* holds exactly one row for each row of the primary table and no other row,
\* whatever the store held before, a mirror table left by an earlier enable
\* included.
C33_EnableLeavesExactMirror ==
    (resp.op = "enable_search" /\ resp.ret = "enabled") => fts = FtsOf(tbl)

\* C34: once enable_vector has succeeded, every connection that executes a
\* vector operation (a similar query, a write that fires the vector
\* triggers) has the vector extension loaded, the connection of a thread
\* that used the backend before enable_vector ran on another thread included.
C34_VectorOpsHaveExtension ==
    ("thread" \in DOMAIN resp /\ resp.op \in {"add", "similar"}) => resp.loaded

\* C35: in what every builder returns, with or without count and filters, the
\* i-th parameter is the value meant for the i-th ? of the statement: the
\* match or vector query at the ? of MATCH or of the distance, limit at the ?
\* of LIMIT or of k = ?, offset at OFFSET, each filter parameter at its own ?
\* of the filter.
C35_ParametersMatchPlaceholders ==
    (resp.op = "build" /\ resp.exc = "") => resp.roles = resp.slots

\* C36: an operation on one base never changes the persisted state of
\* another: drop on the first base, with either value of main_only, leaves
\* the second base's primary rows, mirror tables, triggers and persisted
\* flags as they were, and enable_search and disable_search of the second
\* base go on succeeding.
C36_DropLeavesOtherBase ==
    /\ [](("base" \in DOMAIN resp
              /\ resp.op \in {"enable_search", "disable_search"}) => resp.exc = "")
    /\ [][("base" \notin DOMAIN resp' /\ resp'.op = "drop")
            => /\ other' = other
               /\ schema' \cap OtherNames = schema \cap OtherNames
               /\ OtherFlags(conf') = OtherFlags(conf)]_vars

\* C37: enabling vector search on one base does not change what add and adds
\* do on another base of the backend whose vector search is not enabled: the
\* records written there keep a null embedding and the embedder is not
\* invoked for them.
C37_OtherBaseNotEmbedded ==
    /\ \A k \in DOMAIN other.tbl : other.tbl[k].embedding = <<>>
    /\ ("base" \in DOMAIN resp /\ resp.op \in {"add", "adds"}) => resp.embedded = 0

\* C38: in every state of a Base, after any enable, disable, drop and
\* construction again, search_enabled implies that {base}_fts exists and
\* vector_enabled implies that {base}_vec exists, so that search and similar
\* never run against a missing mirror table.
C38_EnabledImpliesMirror ==
    /\ search_enabled => FtsTable \in schema
    /\ vector_enabled => VecTable \in schema

\* the body Base.add stores for a mapping: json.dumps of the mapping once
\* its "key" entry is popped
AddBody(data) == dumps(PopRest(data, "key"))

\* C39: add and adds store the same body for the same mapping: a mapping
\* with a "key" entry that adds has written is stored under that key, the
\* "key" entry removed from the stored document, as add stores it.
C39_AddsStoresBodyOfAdd ==
    [][(CallOf("adds") /\ resp'.success)
        => \A i \in 1..Len(caller_items) :
              ~NeedsKey(caller_items[i])
              => /\ str(PopValue(caller_items[i], "key")) \in DOMAIN tbl'
                 /\ tbl'[str(PopValue(caller_items[i], "key"))].data
                      = AddBody(caller_items[i])]_vars
====
